---- MODULE Spec2Model ----
(***************************************************************************)
(* A model of the postnl client library.                                   *)
(*                                                                         *)
(*   Spec       the PostNL client of src/src/lib.rs: concurrent            *)
(*              authenticate() calls (check_credentials) around the token  *)
(*              cache slot.                                                *)
(*   SpecPackages  one caller of that client: check_credentials() and      *)
(*              get_packages() calls, one after another.                   *)
(*   SpecToken  the two Token types (src/src/lib.rs, src/src/auth.rs):     *)
(*              minting from a token-endpoint body, and need_refresh.      *)
(*   SpecAuth   the AuthHandler of src/src/auth.rs: login(), then          *)
(*              generate_token() calls one after another.                  *)
(*   SpecMint   a LoggedIn AuthHandler: concurrent generate_token() calls. *)
(*   SpecPkce   AuthorizationParams::new(): the PKCE parameters.           *)
(*   SpecFormat the FormattedStatus of src/src/formatted.rs: the           *)
(*              conversion from the raw status, short() and body().        *)
(*   SpecDimensions, SpecWeight  the Dimensions and Weight parsers of      *)
(*              src/src/dimensions.rs.                                     *)
(***************************************************************************)
EXTENDS Integers, Sequences, FiniteSets, TLC

(***************************************************************************)
(* Bounds of the model.                                                    *)
(***************************************************************************)
\* Concurrent callers of one PostNL client.
NumCalls == 2
\* authenticate() calls started in one run.
MaxInvocations == 2
\* The clock runs from 0 to MaxTime seconds.
MaxTime == 2
\* Token pairs the provider hands out: pair k is access token k with refresh
\* credential k, for k in 1..MaxTokenId.
MaxTokenId == 2
\* The width of u64 in the model; the instant type holds half that range.
U64Bits == 10
\* Query pairs in a redirect's query string.
MaxQueryPairs == 2
\* Concurrent generate_token() calls on one LoggedIn handler.
NumMintCalls == 2
\* generate_token() calls started in one run.
MaxMints == 2
\* Sextets of a digest, as base64 sees it.
DigestLen == 3

(***************************************************************************)
(* Program constants.                                                      *)
(***************************************************************************)
\* The safety margin subtracted from expires_in.
Margin == 15

VARIABLES
    \* ---- Spec: PostNL (src/src/lib.rs) ----
    token,          \* PostNL.token: the cache slot, <<>> or <<t>>
    mutex,          \* holder of the slot's Mutex: Free or a call
    now,            \* the clock read by Instant::now()
    build,          \* "debug" or "release": decides what integer overflow does
    pc,             \* pc[c]: where call c is inside authenticate()
    held,           \* held[c]: what call c took out of the slot
    stale,          \* stale[c]: what need_refresh() answered for held[c]
    newTok,         \* newTok[c]: the token call c computed, <<>> or <<t>>
    sent,           \* sent[c]: the requests call c has sent, in order
    refreshStatus,  \* refreshStatus[c]: status answered to c's refresh POST, 0 if none
    ntResult,       \* ntResult[c]: what new_token() returned to call c: "Ok" or the error
    result,         \* result[c]: what authenticate() returned to call c
    started,        \* authenticate() calls started so far
    op,             \* op[c]: the public operation call c runs
    netFail,        \* netFail[c]: the last request of call c failed in transport
    bearer,         \* bearer[c]: the access token in c's shipments request, 0 if none
    pkResult,       \* pkResult[c]: what the shipments request gave get_packages()
    \* ---- SpecToken: Token (src/src/lib.rs, src/src/auth.rs) ----
    tkClock,        \* the clock read by Instant::now() / Utc::now()
    tkKind,         \* "none", "lib" or "auth": which Token type was minted
    tkBody,         \* the token-endpoint body that was decoded
    tkMintedAt,     \* the clock when the body was decoded
    tkOutcome,      \* what decoding and conversion returned
    tkCheck,        \* the last need_refresh() call on the minted token: when, and its answer
    \* ---- SpecAuth: AuthHandler (src/src/auth.rs) ----
    ahState,        \* where the handler is inside login()
    ahLocation,     \* the Location header answering the credentials POST
    ahSent,         \* the requests the handler has sent, in order
    ahResult,       \* what login() returned
    ahPage,         \* the login page that answered the GET, <<>> or <<page>>
    ahValidation,   \* the answer to the verification POST, <<>> or <<v>>
    ahError,        \* the text the error login() returned carries, "" if none
    gt,             \* gt[g]: the locals of generate_token() call g
    gtStarted,      \* generate_token() calls started so far
    \* ---- SpecPkce: AuthorizationParams (src/src/auth.rs) ----
    pkParams,       \* the last AuthorizationParams::new(), <<>> or <<params>>
    \* ---- SpecFormat: FormattedStatus (src/src/formatted.rs) ----
    fsRaw,          \* the RawFormattedStatus that was converted, <<>> or <<raw>>
    fsStatus,       \* what the conversion returned
    fsShort,        \* what short() returned, <<>> or <<text>>
    fsBody,         \* what body() returned, <<>> or <<text>>
    \* ---- SpecDimensions, SpecWeight (src/src/dimensions.rs) ----
    dmInput,        \* the text given to Dimensions::try_from, <<>> or <<text>>
    dmResult,       \* what it returned
    wtInput,        \* the text given to Weight::try_from, <<>> or <<text>>
    wtResult,       \* what it returned
    \* ---- SpecMoves: where each Token object is (observers of lib.rs) ----
    mvMinted,       \* the number of Token objects decoded so far
    mvPlaced,       \* the number of replace() calls on the slot so far
    mvSlot,         \* which object the slot holds, and since which replace()
    mvHeld,         \* per call: the object it took out of the slot, 0 for none
    mvNew,          \* per call: the object it is about to store, 0 for none
    mvTakes,        \* per replace(): how many calls took its token out
    mvRefreshes,    \* per object: how many refresh POSTs carried its credential
    \* ---- SpecLogin: what answered the full-login POST (observer) ----
    lgResponse      \* <<>> or <<response>>

vars == <<token, mutex, now, build, pc, held, stale, newTok, sent, refreshStatus,
          ntResult, result, started, op, netFail, bearer, pkResult,
          tkClock, tkKind, tkBody, tkMintedAt, tkOutcome, tkCheck,
          ahState, ahLocation, ahSent, ahResult, ahPage, ahValidation, ahError,
          gt, gtStarted, pkParams,
          fsRaw, fsStatus, fsShort, fsBody, dmInput, dmResult, wtInput, wtResult,
          mvMinted, mvPlaced, mvSlot, mvHeld, mvNew, mvTakes, mvRefreshes,
          lgResponse>>

clientVars == <<token, mutex, now, build, pc, held, stale, newTok, sent,
                refreshStatus, ntResult, result, started, op, netFail, bearer,
                pkResult>>
tokenVars == <<tkClock, tkKind, tkBody, tkMintedAt, tkOutcome, tkCheck>>
handlerVars ==
    <<ahState, ahLocation, ahSent, ahResult, ahPage, ahValidation, ahError>>
mintVars == <<gt, gtStarted>>
authVars == <<handlerVars, mintVars, pkParams>>
formatVars == <<fsRaw, fsStatus, fsShort, fsBody>>
dimensionVars == <<dmInput, dmResult>>
weightVars == <<wtInput, wtResult>>
dataVars == <<formatVars, dimensionVars, weightVars>>
moveVars == <<mvMinted, mvPlaced, mvSlot, mvHeld, mvNew, mvTakes, mvRefreshes>>
observerVars == <<moveVars, lgResponse>>

(***************************************************************************)
(* Values.                                                                 *)
(***************************************************************************)
Calls == 1..NumCalls
TokenIds == 1..MaxTokenId
Builds == {"debug", "release"}

\* Option<T>: None is <<>>, Some(x) is <<x>>.
None == <<>>
Some(x) == <<x>>

\* A JSON field that the body does not carry: a number or token field, and a
\* text field.
Absent == -1
AbsentText == "<absent>"

\* The Mutex is free.
Free == 0

\* u64 arithmetic wraps modulo U64Modulus in a release build; an Instant holds
\* seconds up to InstantMax.
U64Modulus == 2 ^ U64Bits
InstantMax == 2 ^ (U64Bits - 1) - 1

\* expires_in values the provider declares: below the margin, at it, above it.
ExpiresIns == {Margin - 1, Margin, Margin + 2}

(***************************************************************************)
(* lib.rs: Token                                                           *)
(***************************************************************************)
\* A panic, as the result of an arithmetic step.
Panic == -2

\* raw.expires_in - 15 on u64: a debug build panics on underflow, a release
\* build wraps.
SubU64(a, b, bld) ==
    IF a >= b THEN a - b
    ELSE IF bld = "debug" THEN Panic
    ELSE (a - b) % U64Modulus

\* Instant + Duration panics when the sum does not fit the instant.
InstantAdd(n, secs) ==
    IF n + secs > InstantMax THEN Panic ELSE n + secs

\* Token::need_refresh
NeedRefresh(t, n) == t.expires < n

\* Result<Token>: tag is "Ok", an Error variant, or "Panic".
OkToken(t) == [tag |-> "Ok", token |-> Some(t)]
ErrToken(e) == [tag |-> e, token |-> None]

\* impl From<RawToken> for Token
TokenFromRaw(raw, n, bld) ==
    LET secs == SubU64(raw.expires_in, Margin, bld)
        exp == IF secs = Panic THEN Panic ELSE InstantAdd(n, secs)
    IN  IF exp = Panic THEN ErrToken("Panic")
        ELSE OkToken([access |-> raw.access_token,
                      refresh |-> raw.refresh_token,
                      expires |-> exp])

\* Bodies the mobile token endpoint answers with: every field is present or
\* Absent; NotJson is a body that is no JSON object at all.
NotJson == [access_token |-> Absent, refresh_token |-> Absent, id_token |-> Absent,
            expires_in |-> Absent, error |-> AbsentText, json |-> FALSE]
LibBodies ==
    {[NotJson EXCEPT !.json = TRUE, !.access_token = k, !.refresh_token = k,
                     !.expires_in = e] : k \in TokenIds, e \in ExpiresIns}
    \cup {[NotJson EXCEPT !.json = TRUE, !.access_token = 1,
                          !.expires_in = Margin + 2]}
    \cup {NotJson}

\* struct RawToken, #[derive(Deserialize)]: all three fields are required.
IsRawToken(body) ==
    /\ body.json
    /\ body.access_token # Absent
    /\ body.refresh_token # Absent
    /\ body.expires_in # Absent

\* response.json() into Token (#[serde(from = "RawToken")])
ResponseJson(body, n, bld) ==
    IF IsRawToken(body) THEN TokenFromRaw(body, n, bld)
    ELSE ErrToken("JSONError")

(***************************************************************************)
(* lib.rs: responses                                                       *)
(***************************************************************************)
Statuses == {200, 400, 500}
\* StatusCode::is_success, StatusCode::is_client_error
IsSuccess(s) == s >= 200 /\ s < 300
IsClientError(s) == s >= 400 /\ s < 500

\* What send_async(request).await yields: a transport failure or a response.
NetErr == [sent |-> FALSE, status |-> 0, body |-> NotJson]
Responses ==
    {NetErr} \cup [sent : {TRUE}, status : Statuses, body : LibBodies]

\* A full login that takes every status outside 2xx for bad credentials.
NewTokenResultUnlessSuccess(resp, n, bld) ==
    IF ~resp.sent THEN ErrToken("NetworkError")
    ELSE IF ~IsSuccess(resp.status) THEN ErrToken("Authentication")
    ELSE ResponseJson(resp.body, n, bld)

\* PostNL::new_token, from the response on
NewTokenResult(resp, n, bld) ==
    IF ~resp.sent THEN ErrToken("NetworkError")
    ELSE IF IsClientError(resp.status) THEN ErrToken("Authentication")
    ELSE ResponseJson(resp.body, n, bld)

\* A refresh that reports a non-2xx status as an error of its own.
RefreshResultNoFallback(resp, n, bld) ==
    IF ~resp.sent THEN ErrToken("NetworkError")
    ELSE IF IsSuccess(resp.status) THEN ResponseJson(resp.body, n, bld)
    ELSE ErrToken("Authentication")

\* A refresh that answers a transport failure with a full login as well.
RefreshResultFallbackAlways(resp, n, bld) ==
    IF resp.sent /\ IsSuccess(resp.status) THEN ResponseJson(resp.body, n, bld)
    ELSE ErrToken("fallback")

\* PostNL::refresh_token, from the response on: "fallback" stands for the call
\* of new_token.
RefreshResult(resp, n, bld) ==
    IF ~resp.sent THEN ErrToken("NetworkError")
    ELSE IF IsSuccess(resp.status) THEN ResponseJson(resp.body, n, bld)
    ELSE ErrToken("fallback")

\* Result<AccessToken> of authenticate(); NoResult while the call runs.
NoResult == [tag |-> "none", access |-> 0]
OkAccess(a) == [tag |-> "Ok", access |-> a]
ErrAccess(e) == [tag |-> e, access |-> 0]

\* The public operations that run authenticate().
Ops == {"check_credentials", "get_packages"}

\* get_packages, from the shipments response on: its status is not looked at.
GetPackagesResult(delivered, decodes) ==
    IF ~delivered THEN "NetworkError"
    ELSE IF ~decodes THEN "JSONError"
    ELSE "Ok"

\* A Bearer credential taken from the token that was in the slot before.
BearerOfHeld(c) ==
    IF held[c] # None THEN held[c][1].access ELSE newTok[c][1].access

\* format!("Bearer {}", token) with the access token authenticate() returned.
BearerOf(c) == newTok[c][1].access

\* A guard that lives on until the end of authenticate().
MutexHeldAcrossAwait(c) == c

\* The MutexGuard of `self.token.lock().unwrap().take()` is a temporary: it is
\* dropped at the end of the statement, before refresh_token / new_token run.
MutexAfterTake(c) == Free

\* A take that leaves the token in the slot, as a clone would.
SlotAfterPeek(slot) == slot

\* Option::take: the slot is left empty.
SlotAfterTake(slot) == None

\* A store that fills an empty slot only.
ReplaceIfEmpty(slot, new) == IF slot = None THEN Some(new) ELSE slot

\* Option::replace: the slot holds the new token, whatever it held.
Replace(slot, new) == Some(new)

\* A kept token whose expiry is pushed on.
KeptTokenExtended(t) == [t EXCEPT !.expires = t.expires + 1]

\* refresh_token's `Ok(token)` for a token that is not due: the token itself.
KeptToken(t) == t

\* The MutexGuard of `self.token.lock().unwrap().replace(new_token)`.
MutexAfterStore(c) == Free

(***************************************************************************)
(* auth.rs: Token and the token-endpoint body                              *)
(***************************************************************************)
\* Bodies the identity token endpoint answers with. The expires_in values are
\* far from the limits of i64, where `expires_in - 15`, Duration::seconds and
\* the DateTime addition cannot fail; values near the limits are not modelled.
AuthBodies ==
    [access_token : {Absent, 1}, refresh_token : {Absent},
     id_token : {Absent, 2}, expires_in : {Absent} \cup ExpiresIns,
     error : {AbsentText, "invalid_grant"}, json : {TRUE}]
    \cup {NotJson}

\* struct ErrorResponse, #[derive(Deserialize)]: `error` is required, other
\* fields of the body are ignored.
MatchesErrorResponse(body) == body.json /\ body.error # AbsentText

\* struct RawToken of auth.rs, #[derive(Deserialize)]: the three fields are
\* required, other fields of the body are ignored.
MatchesRawToken(body) ==
    /\ body.json
    /\ body.access_token # Absent
    /\ body.id_token # Absent
    /\ body.expires_in # Absent

\* enum RawTokenResponse, #[serde(untagged)]: the variants are tried in the
\* order they are declared, Error before Ok; the first that matches is taken.
DecodeRawTokenResponse(body) ==
    IF MatchesErrorResponse(body) THEN [variant |-> "Error", body |-> body]
    ELSE IF MatchesRawToken(body) THEN [variant |-> "Ok", body |-> body]
    ELSE [variant |-> "DecodeError", body |-> body]

\* Result<Token> of auth.rs, with the text an error carries.
AuthOk(t) == [tag |-> "Ok", token |-> Some(t), error |-> ""]
AuthErr(e, text) == [tag |-> e, token |-> None, error |-> text]

\* A conversion that drops the provider's error text.
TokenTryFromNoText(raw, n) ==
    IF raw.variant = "Ok"
    THEN AuthOk([access |-> raw.body.access_token,
                 id_token |-> raw.body.id_token,
                 expires |-> n + (raw.body.expires_in - Margin)])
    ELSE IF raw.variant = "Error" THEN AuthErr("FailedToken", "")
    ELSE AuthErr("DecodeError", "")

\* impl TryFrom<RawTokenResponse> for Token; a body that matched no variant
\* never gets here: response.json() has failed with a decode error.
TokenTryFrom(raw, n) ==
    IF raw.variant = "Ok"
    THEN AuthOk([access |-> raw.body.access_token,
                 id_token |-> raw.body.id_token,
                 expires |-> n + (raw.body.expires_in - Margin)])
    ELSE IF raw.variant = "Error" THEN AuthErr("FailedToken", raw.body.error)
    ELSE AuthErr("DecodeError", "")

\* A need_refresh that counts the expiry instant itself as expired.
AuthNeedRefreshAtExpiry(t, n) == t.expires <= n

\* Token::need_refresh of auth.rs
AuthNeedRefresh(t, n) == t.expires < n

(***************************************************************************)
(* SpecToken: a token is minted from a body, the clock runs, need_refresh  *)
(* is asked.                                                               *)
(***************************************************************************)
\* lib.rs: response.json() of a mobile token-endpoint body.
MintLib ==
    /\ tkKind = "none"
    /\ \E body \in LibBodies :
         LET r == ResponseJson(body, tkClock, build) IN
         /\ tkBody' = body
         /\ tkOutcome' = [tag |-> r.tag, token |-> r.token, error |-> ""]
    /\ tkKind' = "lib"
    /\ tkMintedAt' = tkClock
    /\ UNCHANGED <<tkClock, tkCheck>>

\* auth.rs: response.json() and Token::try_from of an identity token-endpoint
\* body.
MintAuth ==
    /\ tkKind = "none"
    /\ \E body \in AuthBodies :
         /\ tkBody' = body
         /\ tkOutcome' = TokenTryFrom(DecodeRawTokenResponse(body), tkClock)
    /\ tkKind' = "auth"
    /\ tkMintedAt' = tkClock
    /\ UNCHANGED <<tkClock, tkCheck>>

\* token.need_refresh()
CheckNeedRefresh ==
    /\ tkOutcome.tag = "Ok"
    /\ tkCheck' = Some([at |-> tkClock,
                        due |-> IF tkKind = "lib"
                                THEN NeedRefresh(tkOutcome.token[1], tkClock)
                                ELSE AuthNeedRefresh(tkOutcome.token[1], tkClock)])
    /\ UNCHANGED <<tkClock, tkKind, tkBody, tkMintedAt, tkOutcome>>

\* Time passes.
TokenTick ==
    /\ tkClock < MaxTime
    /\ tkClock' = tkClock + 1
    /\ UNCHANGED <<tkKind, tkBody, tkMintedAt, tkOutcome, tkCheck>>

(***************************************************************************)
(* lib.rs: PostNL::authenticate                                            *)
(*                                                                         *)
(* A call is a sequence of steps that other calls may interleave with: the *)
(* critical section of the take with the code up to the first await, each  *)
(* completion of a request, and the critical section of the store with the *)
(* return. A critical section is one step, enabled when the Mutex is free. *)
(***************************************************************************)
ClientIdle ==
    /\ mutex = Free
    /\ now = 0
    /\ build \in Builds
    /\ pc = [c \in Calls |-> "idle"]
    /\ held = [c \in Calls |-> None]
    /\ stale = [c \in Calls |-> FALSE]
    /\ newTok = [c \in Calls |-> None]
    /\ sent = [c \in Calls |-> <<>>]
    /\ refreshStatus = [c \in Calls |-> 0]
    /\ ntResult = [c \in Calls |-> "none"]
    /\ result = [c \in Calls |-> NoResult]
    /\ started = 0
    /\ op = [c \in Calls |-> "none"]
    /\ netFail = [c \in Calls |-> FALSE]
    /\ bearer = [c \in Calls |-> 0]
    /\ pkResult = [c \in Calls |-> "none"]

\* PostNL::new: the slot starts empty.
ClientInit == token = None /\ ClientIdle

\* A call ends with an error (`?`): nothing is stored.
Fail(c, e) ==
    /\ pc' = [pc EXCEPT ![c] = IF e = "Panic" THEN "panicked" ELSE "failed"]
    /\ result' = [result EXCEPT ![c] = ErrAccess(e)]

\* check_credentials() or get_packages() is called and enters authenticate():
\* lock, .take(), the guard's drop, and the match up to the first await. What
\* the previous call of this caller left is reset.
Take(c, o) ==
    /\ pc[c] \in {"idle", "done", "failed", "panicked", "packages", "packages_failed"}
    /\ started < MaxInvocations
    /\ mutex = Free
    /\ started' = started + 1
    /\ op' = [op EXCEPT ![c] = o]
    /\ netFail' = [netFail EXCEPT ![c] = FALSE]
    /\ bearer' = [bearer EXCEPT ![c] = 0]
    /\ pkResult' = [pkResult EXCEPT ![c] = "none"]
    /\ token' = SlotAfterTake(token)
    /\ mutex' = MutexAfterTake(c)
    /\ held' = [held EXCEPT ![c] = token]
    /\ refreshStatus' = [refreshStatus EXCEPT ![c] = 0]
    /\ ntResult' = [ntResult EXCEPT ![c] = "none"]
    /\ result' = [result EXCEPT ![c] = NoResult]
    /\ IF token = None
       THEN /\ stale' = [stale EXCEPT ![c] = FALSE]
            /\ newTok' = [newTok EXCEPT ![c] = None]
            /\ sent' = [sent EXCEPT ![c] = <<"login">>]
            /\ pc' = [pc EXCEPT ![c] = "new_token"]
       ELSE IF NeedRefresh(token[1], now)
       THEN /\ stale' = [stale EXCEPT ![c] = TRUE]
            /\ newTok' = [newTok EXCEPT ![c] = None]
            /\ sent' = [sent EXCEPT ![c] = <<"refresh">>]
            /\ pc' = [pc EXCEPT ![c] = "refresh"]
       ELSE /\ stale' = [stale EXCEPT ![c] = FALSE]
            /\ newTok' = [newTok EXCEPT ![c] = Some(KeptToken(token[1]))]
            /\ sent' = [sent EXCEPT ![c] = <<>>]
            /\ pc' = [pc EXCEPT ![c] = "store"]
    /\ UNCHANGED <<now, build>>

\* The refresh POST completes.
RefreshResponse(c) ==
    /\ pc[c] = "refresh"
    /\ \E resp \in Responses :
         LET r == RefreshResult(resp, now, build) IN
         /\ refreshStatus' = [refreshStatus EXCEPT ![c] = resp.status]
         /\ netFail' = [netFail EXCEPT ![c] = ~resp.sent]
         /\ IF r.tag = "Ok"
            THEN /\ newTok' = [newTok EXCEPT ![c] = r.token]
                 /\ pc' = [pc EXCEPT ![c] = "store"]
                 /\ UNCHANGED <<sent, result>>
            ELSE IF r.tag = "fallback"
            THEN /\ sent' = [sent EXCEPT ![c] = Append(sent[c], "login")]
                 /\ pc' = [pc EXCEPT ![c] = "new_token"]
                 /\ UNCHANGED <<newTok, result>>
            ELSE /\ Fail(c, r.tag)
                 /\ UNCHANGED <<newTok, sent>>
    /\ UNCHANGED <<token, mutex, now, build, held, stale, ntResult, started, op,
                   bearer, pkResult>>

\* The full-login POST completes with resp.
NewTokenAnswer(c, resp) ==
    /\ pc[c] = "new_token"
    /\ LET r == NewTokenResult(resp, now, build) IN
         /\ ntResult' = [ntResult EXCEPT ![c] = r.tag]
         /\ netFail' = [netFail EXCEPT ![c] = ~resp.sent]
         /\ IF r.tag = "Ok"
            THEN /\ newTok' = [newTok EXCEPT ![c] = r.token]
                 /\ pc' = [pc EXCEPT ![c] = "store"]
                 /\ UNCHANGED result
            ELSE /\ Fail(c, r.tag)
                 /\ UNCHANGED newTok
    /\ UNCHANGED <<token, mutex, now, build, held, stale, sent, refreshStatus,
                   started, op, bearer, pkResult>>

\* The full-login POST completes.
NewTokenResponse(c) == \E resp \in Responses : NewTokenAnswer(c, resp)

\* new_token.access.clone(); lock, .replace(new_token), the guard's drop; and
\* Ok(access_token). check_credentials() returns Ok(()); get_packages() goes
\* on, without an await in between, to send the shipments request.
Store(c) ==
    /\ pc[c] = "store"
    /\ mutex = Free
    /\ token' = Replace(token, newTok[c][1])
    /\ mutex' = MutexAfterStore(c)
    /\ result' = [result EXCEPT ![c] = OkAccess(newTok[c][1].access)]
    /\ IF op[c] = "get_packages"
       THEN /\ bearer' = [bearer EXCEPT ![c] = BearerOf(c)]
            /\ sent' = [sent EXCEPT ![c] = Append(sent[c], "shipments")]
            /\ pc' = [pc EXCEPT ![c] = "shipments"]
       ELSE /\ pc' = [pc EXCEPT ![c] = "done"]
            /\ UNCHANGED <<bearer, sent>>
    /\ UNCHANGED <<now, build, held, stale, newTok, refreshStatus,
                   ntResult, started, op, netFail, pkResult>>

\* The shipments request completes.
ShipmentsResponse(c) ==
    /\ pc[c] = "shipments"
    /\ \E delivered, decodes \in BOOLEAN :
         LET r == GetPackagesResult(delivered, decodes) IN
         /\ netFail' = [netFail EXCEPT ![c] = ~delivered]
         /\ pkResult' = [pkResult EXCEPT ![c] = r]
         /\ pc' = [pc EXCEPT ![c] = IF r = "Ok" THEN "packages" ELSE "packages_failed"]
    /\ UNCHANGED <<token, mutex, now, build, held, stale, newTok, sent,
                   refreshStatus, ntResult, result, started, op, bearer>>

\* Time passes.
Tick ==
    /\ now < MaxTime
    /\ now' = now + 1
    /\ UNCHANGED <<token, mutex, build, pc, held, stale, newTok, sent,
                   refreshStatus, ntResult, result, started, op, netFail, bearer,
                   pkResult>>

(***************************************************************************)
(* The initial states and the three specifications.                        *)
(***************************************************************************)
\* No token has been minted.
TokenInit ==
    /\ tkClock = 0
    /\ tkKind = "none"
    /\ tkBody = NotJson
    /\ tkMintedAt = 0
    /\ tkOutcome = [tag |-> "none", token |-> None, error |-> ""]
    /\ tkCheck = None

(***************************************************************************)
(* auth.rs: AuthHandler<New>::login                                        *)
(***************************************************************************)
\* A query string is the sequence of its (key, value) pairs, in order; a key
\* may occur more than once.
QueryKeys == {"botdetected", "returnUrl"}
QueryValues == {"true", "false", "1"}
QueryPairs == QueryKeys \X QueryValues
Queries == UNION {[1..n -> QueryPairs] : n \in 0..MaxQueryPairs}

\* The Location header of a response: absent, or a text that Url::parse takes
\* (an absolute URL) or refuses (a relative one), with its query string.
NoLocation == [present |-> FALSE, parses |-> FALSE, query |-> <<>>]
Locations ==
    {NoLocation} \cup [present : {TRUE}, parses : BOOLEAN, query : Queries]

\* get_redirect_url: the parsed URL (here: its query), or None.
GetRedirectUrl(loc) ==
    IF loc.present /\ loc.parses THEN Some(loc.query) ELSE None

\* bool::from_str(value).unwrap_or_default(): only "true" is true.
BoolFromStr(v) == v = "true"

\* query_pairs().find(|(key, _)| key == "botdetected").map(parse) == Some(true):
\* the first pair with that key decides.
BotDetected(q) ==
    \E i \in 1..Len(q) :
        /\ q[i][1] = "botdetected"
        /\ \A j \in 1..(i - 1) : q[j][1] # "botdetected"
        /\ BoolFromStr(q[i][2])

\* A do_login that does not look at the redirect.
DoLoginResultIgnoresRedirect(delivered, loc) ==
    IF ~delivered THEN "NetworkError" ELSE "Ok"

\* do_login, from the response on: a transport failure, Blocked, or Ok.
DoLoginResult(delivered, loc) ==
    IF ~delivered THEN "NetworkError"
    ELSE IF GetRedirectUrl(loc) # None /\ BotDetected(GetRedirectUrl(loc)[1])
    THEN "Blocked"
    ELSE "Ok"

\* The login page: whether each of the two patterns matches its body.
Pages == [token : BOOLEAN, static : BOOLEAN]

\* A get_request_verification_info that looks for the static URL only and
\* posts an empty token when the page has none.
VerificationInfoResultStaticOnly(page) ==
    IF ~page.static THEN "NoStaticUrl" ELSE "Ok"

\* get_request_verification_info, from the body on.
VerificationInfoResult(page) ==
    IF ~page.token THEN "NoRequestValidationToken"
    ELSE IF ~page.static THEN "NoStaticUrl"
    ELSE "Ok"

\* The verification answer: a body that is no ValidateResponse, or
\* {success, error} where `error` is a text or is missing (AbsentText).
Undecodable == [decodes |-> FALSE, success |-> FALSE, error |-> AbsentText]
Validated == [decodes |-> TRUE, success |-> TRUE, error |-> AbsentText]
Validations ==
    {Undecodable, Validated}
    \cup [decodes : {TRUE}, success : {FALSE}, error : {AbsentText, "bot detected"}]

\* The text of a VerificationFailure whose answer carried no `error`.
NoErrorProvided == "no error provided"

\* Result<String> of verify_login, with the text an error carries.
VerifyOk == [tag |-> "Ok", error |-> ""]
VerifyErr(e, text) == [tag |-> e, error |-> text]

\* A verify_login that decodes the answer and does not look at `success`.
VerifyResultIgnoresSuccess(v) ==
    IF ~v.decodes THEN VerifyErr("DecodeError", "") ELSE VerifyOk

\* A verify_login that has no text of its own for a missing `error`.
VerifyResultNoDefault(v) ==
    IF ~v.decodes THEN VerifyErr("DecodeError", "")
    ELSE IF ~v.success
    THEN VerifyErr("VerificationFailure",
                   IF v.error = AbsentText THEN "" ELSE v.error)
    ELSE VerifyOk

\* verify_login, from the response on.
VerifyResult(v) ==
    IF ~v.decodes THEN VerifyErr("DecodeError", "")
    ELSE IF ~v.success
    THEN VerifyErr("VerificationFailure",
                   IF v.error = AbsentText THEN NoErrorProvided ELSE v.error)
    ELSE VerifyOk

AuthInit ==
    /\ ahState = "New"
    /\ ahLocation = NoLocation
    /\ ahSent = <<>>
    /\ ahResult = "none"
    /\ ahPage = None
    /\ ahValidation = None
    /\ ahError = ""

\* A login() that hands out the handler whatever happened.
LoginFailsKeepsHandler(e) ==
    /\ ahState' = "LoggedIn"
    /\ ahResult' = e

\* login() ends with an error: the New handler is consumed, none is returned.
LoginFails(e) ==
    /\ ahState' = "Failed"
    /\ ahResult' = e

\* login() is called: the login page is requested.
StartLogin ==
    /\ ahState = "New"
    /\ ahState' = "login_page"
    /\ ahSent' = <<"GET login">>
    /\ UNCHANGED <<ahLocation, ahResult, ahPage, ahValidation, ahError>>

\* The login page arrives, or the transport fails.
LoginPageResponse ==
    /\ ahState = "login_page"
    /\ \/ LoginFails("NetworkError") /\ UNCHANGED <<ahSent, ahPage>>
       \/ \E page \in Pages :
            /\ ahPage' = Some(page)
            /\ IF VerificationInfoResult(page) = "Ok"
               THEN /\ ahState' = "verification"
                    /\ ahSent' = Append(ahSent, "POST verification")
                    /\ UNCHANGED ahResult
               ELSE /\ LoginFails(VerificationInfoResult(page))
                    /\ UNCHANGED ahSent
    /\ UNCHANGED <<ahLocation, ahValidation, ahError>>

\* The verification answer arrives, or the transport fails.
VerificationResponse ==
    /\ ahState = "verification"
    /\ \/ LoginFails("NetworkError") /\ UNCHANGED <<ahSent, ahValidation, ahError>>
       \/ \E v \in Validations :
            /\ ahValidation' = Some(v)
            /\ ahError' = VerifyResult(v).error
            /\ IF VerifyResult(v).tag = "Ok"
               THEN /\ ahState' = "credentials"
                    /\ ahSent' = Append(ahSent, "POST login")
                    /\ UNCHANGED ahResult
               ELSE /\ LoginFails(VerifyResult(v).tag)
                    /\ UNCHANGED ahSent
    /\ UNCHANGED <<ahLocation, ahPage>>

\* The answer to the credentials POST arrives, or the transport fails.
CredentialsResponse ==
    /\ ahState = "credentials"
    /\ \E delivered \in BOOLEAN, loc \in Locations :
         /\ ~delivered => loc = NoLocation
         /\ ahLocation' = loc
         /\ IF DoLoginResult(delivered, loc) = "Ok"
            THEN ahState' = "LoggedIn" /\ ahResult' = "Ok"
            ELSE LoginFails(DoLoginResult(delivered, loc))
    /\ UNCHANGED <<ahSent, ahPage, ahValidation, ahError>>

(***************************************************************************)
(* auth.rs: AuthorizationParams                                            *)
(***************************************************************************)
\* The base64 alphabet of base64::encode (the standard one): sextet s is
\* written as Base64Table[s + 1], and "=" pads.
Base64Table ==
    <<"A", "B", "C", "D", "E", "F", "G", "H", "I", "J", "K", "L", "M",
      "N", "O", "P", "Q", "R", "S", "T", "U", "V", "W", "X", "Y", "Z",
      "a", "b", "c", "d", "e", "f", "g", "h", "i", "j", "k", "l", "m",
      "n", "o", "p", "q", "r", "s", "t", "u", "v", "w", "x", "y", "z",
      "0", "1", "2", "3", "4", "5", "6", "7", "8", "9", "+", "/">>

\* The sextets a digest is made of in the model: one of each kind of
\* character (upper case, lower case, digit), and the two that the URL-safe
\* alphabet writes differently.
SextetSamples == <<0, 26, 52, 62, 63>>

\* hex_random(64): code verifier v is the v-th text the generator can return.
Verifiers == 1..(Len(SextetSamples) ^ DigestLen)

\* The verifiers that generate_token() calls draw: the first and the last.
FlowVerifiers == {1, Len(SextetSamples) ^ DigestLen}

\* Sha256 of a verifier, as the sextets base64 reads: a fixed function, one
\* digest per verifier.
Sha256(v) ==
    [i \in 1..DigestLen |->
        SextetSamples[(((v - 1) \div (Len(SextetSamples) ^ (i - 1)))
                       % Len(SextetSamples)) + 1]]

\* base64::encode of a 32-byte digest: its characters and one "=" of padding.
Base64Encode(digest) ==
    [i \in 1..Len(digest) |-> Base64Table[digest[i] + 1]] \o <<"=">>

\* str::replace(from, to) for a one-character pattern, and with "" as `to`.
StrReplace(text, from, to) ==
    [i \in 1..Len(text) |-> IF text[i] = from THEN to ELSE text[i]]
StrRemove(text, from) == SelectSeq(text, LAMBDA ch : ch # from)

\* A challenge that writes "/" as "_": the URL-safe alphabet.
CodeChallengeUrlSafe(v) ==
    StrRemove(StrReplace(StrReplace(Base64Encode(Sha256(v)), "+", "-"),
                         "/", "_"), "=")

\* base64::encode(hasher.result()).replace('+', "-").replace('\\', "_")
\*     .replace('=', ""): the second pattern is the backslash.
CodeChallenge(v) ==
    StrRemove(StrReplace(StrReplace(Base64Encode(Sha256(v)), "+", "-"),
                         "\\", "_"), "=")

\* AuthorizationParams::new() with v as the verifier hex_random returned; the
\* `state` parameter is random text that nothing reads back.
AuthorizationParamsNew(v) ==
    [code_verifier |-> v, code_challenge |-> CodeChallenge(v)]

PkceInit == pkParams = None

\* AuthorizationParams::new()
NewParams ==
    \E v \in Verifiers : pkParams' = Some(AuthorizationParamsNew(v))

(***************************************************************************)
(* auth.rs: AuthHandler<LoggedIn>::generate_token                          *)
(***************************************************************************)
MintCalls == 1..NumMintCalls

\* The query of the authorize redirect.
AuthorizeKeys == {"error", "code"}
AuthorizeValues == {"x", "y"}
AuthorizePairs == AuthorizeKeys \X AuthorizeValues
AuthorizeQueries == UNION {[1..n -> AuthorizePairs] : n \in 0..MaxQueryPairs}
\* The Location header answering the authorize GET: absent, a text that
\* Url::parse refuses, or an absolute URL with its query.
AuthorizeLocations ==
    {NoLocation, [present |-> TRUE, parses |-> FALSE, query |-> <<>>]}
    \cup [present : {TRUE}, parses : {TRUE}, query : AuthorizeQueries]

\* query_pairs().collect::<HashMap<_, _>>(): for each key the value of its
\* last pair, AbsentText for a key without a pair.
LastValue(q, key) ==
    IF \E i \in 1..Len(q) : q[i][1] = key
    THEN q[CHOOSE i \in 1..Len(q) :
               /\ q[i][1] = key
               /\ \A j \in (i + 1)..Len(q) : q[j][1] # key][2]
    ELSE AbsentText
QueryMap(q) == [key \in AuthorizeKeys |-> LastValue(q, key)]

\* Result<AuthorizationCode>
CodeOk(code) == [tag |-> "Ok", code |-> Some(code), error |-> ""]
CodeErr(e, text) == [tag |-> e, code |-> None, error |-> text]

\* A do_authorization that reads the query pairs of whatever the Location
\* header holds, a missing or unparseable one counting as an empty query.
DoAuthorizationResultAnyLocation(delivered, loc, params) ==
    IF ~delivered THEN CodeErr("NetworkError", "")
    ELSE LET pairs == QueryMap(loc.query) IN
         IF pairs["error"] # AbsentText
         THEN CodeErr("VerificationFailure", pairs["error"])
         ELSE IF pairs["code"] = AbsentText
         THEN CodeErr("AuthorizationFailure", "No code provided")
         ELSE CodeOk([code |-> pairs["code"],
                      code_verifier |-> params.code_verifier])

\* A do_authorization that looks for the code before it looks for an error.
DoAuthorizationResultCodeFirst(delivered, loc, params) ==
    IF ~delivered THEN CodeErr("NetworkError", "")
    ELSE IF GetRedirectUrl(loc) = None
    THEN CodeErr("AuthorizationFailure", "No or invalid redirect url")
    ELSE LET pairs == QueryMap(GetRedirectUrl(loc)[1]) IN
         IF pairs["code"] # AbsentText
         THEN CodeOk([code |-> pairs["code"],
                      code_verifier |-> params.code_verifier])
         ELSE IF pairs["error"] # AbsentText
         THEN CodeErr("VerificationFailure", pairs["error"])
         ELSE CodeErr("AuthorizationFailure", "No code provided")

\* do_authorization, from the response on.
DoAuthorizationResult(delivered, loc, params) ==
    IF ~delivered THEN CodeErr("NetworkError", "")
    ELSE IF GetRedirectUrl(loc) = None
    THEN CodeErr("AuthorizationFailure", "No or invalid redirect url")
    ELSE LET pairs == QueryMap(GetRedirectUrl(loc)[1]) IN
         IF pairs["error"] # AbsentText
         THEN CodeErr("VerificationFailure", pairs["error"])
         ELSE IF pairs["code"] = AbsentText
         THEN CodeErr("AuthorizationFailure", "No code provided")
         ELSE CodeOk([code |-> pairs["code"],
                      code_verifier |-> params.code_verifier])

\* The form of the token POST that get_token_from_code sends.
TokenForm(code) ==
    [code |-> code.code, code_verifier |-> code.code_verifier]

\* Parameters kept in one place for all calls: those of call 1 when it has
\* any.
ParamsOfFirstCall(g) ==
    IF gt[1].params # None THEN gt[1].params[1] ELSE gt[g].params[1]

\* auth_params, moved into do_authorization by the call that made it.
ParamsOf(g) == gt[g].params[1]

\* The locals of a generate_token() call that has not begun.
MintIdle ==
    [pc |-> "idle", params |-> None, authorizeReq |-> None, redirect |-> None,
     code |-> None, tokenReq |-> None, sent |-> <<>>,
     result |-> AuthErr("none", "")]

MintInit ==
    /\ gt = [g \in MintCalls |-> MintIdle]
    /\ gtStarted = 0

\* generate_token() needs an AuthHandler<LoggedIn>: only a login() that
\* returned Ok hands one out.
CanGenerateToken == ahState = "LoggedIn"

\* generate_token() ends with an error.
MintFails(g, r) ==
    gt' = [gt EXCEPT ![g].pc = "failed", ![g].result = r]

\* generate_token() is called: AuthorizationParams::new(), and the authorize
\* GET is sent with the challenge.
StartGenerateToken(g) ==
    /\ CanGenerateToken
    /\ gt[g].pc \in {"idle", "done", "failed"}
    /\ gtStarted < MaxMints
    /\ gtStarted' = gtStarted + 1
    /\ \E v \in FlowVerifiers :
         LET params == AuthorizationParamsNew(v) IN
         gt' = [gt EXCEPT ![g] =
                   [MintIdle EXCEPT
                       !.pc = "authorize",
                       !.params = Some(params),
                       !.authorizeReq = Some([code_challenge |-> params.code_challenge]),
                       !.sent = <<"GET authorize">>]]

\* The answer to the authorize GET arrives, or the transport fails; on a code
\* the token POST is sent. `redirect` keeps what the call saw of the answer:
\* whether a Location header came, whether it parsed, and the HashMap of the
\* parsed URL's query pairs.
AuthorizeResponse(g) ==
    /\ gt[g].pc = "authorize"
    /\ \E delivered \in BOOLEAN, loc \in AuthorizeLocations :
         /\ ~delivered => loc = NoLocation
         /\ LET r == DoAuthorizationResult(delivered, loc, ParamsOf(g))
                seen == IF ~delivered THEN None
                        ELSE IF GetRedirectUrl(loc) = None
                        THEN Some([present |-> loc.present, parses |-> FALSE,
                                   pairs |-> QueryMap(<<>>)])
                        ELSE Some([present |-> TRUE, parses |-> TRUE,
                                   pairs |-> QueryMap(GetRedirectUrl(loc)[1])])
            IN IF r.tag = "Ok"
               THEN gt' = [gt EXCEPT ![g].pc = "token",
                                     ![g].redirect = seen,
                                     ![g].code = r.code,
                                     ![g].tokenReq = Some(TokenForm(r.code[1])),
                                     ![g].sent = Append(gt[g].sent, "POST token")]
               ELSE gt' = [gt EXCEPT ![g].pc = "failed",
                                     ![g].redirect = seen,
                                     ![g].result = AuthErr(r.tag, r.error)]
    /\ UNCHANGED gtStarted

\* The answer to the token POST arrives, or the transport fails:
\* response.json() and Token::try_from.
TokenResponse(g) ==
    /\ gt[g].pc = "token"
    /\ \/ MintFails(g, AuthErr("NetworkError", ""))
       \/ \E body \in AuthBodies :
            LET r == TokenTryFrom(DecodeRawTokenResponse(body), tkClock) IN
            gt' = [gt EXCEPT ![g].pc = IF r.tag = "Ok" THEN "done" ELSE "failed",
                             ![g].result = r]
    /\ UNCHANGED gtStarted

\* A handler that login() has returned: the state SpecAuth reaches when the
\* three login requests have succeeded.
LoggedInInit ==
    /\ ahState = "LoggedIn"
    /\ ahLocation = NoLocation
    /\ ahSent = <<"GET login", "POST verification", "POST login">>
    /\ ahResult = "Ok"
    /\ ahPage = Some([token |-> TRUE, static |-> TRUE])
    /\ ahValidation = Some(Validated)
    /\ ahError = ""

(***************************************************************************)
(* formatted.rs: FormattedStatus                                           *)
(***************************************************************************)
\* Texts are sequences of atoms.  An atom is one brace, one colon, or a run
\* of characters for which the two regular expressions of formatted.rs
\* decide alike at every character: a run of word characters (\w), a run of
\* other characters, or one RFC 3339 timestamp (which starts with the digits
\* of the year followed by '-', and holds no brace).
MaxSegments == 2

Timestamp1 == "2019-08-27T12:28:12+02:00"
Timestamp2 == "2020-01-02T03:04:05+01:00"
Timestamps == {Timestamp1, Timestamp2}

WordAtoms == {"date", "DateAbs", "time", "DateTime", "kind", "da", "te", "uur", "notadate"}

\* str::to_lowercase on a word atom.
ToLowercase(a) ==
    CASE a = "DateAbs" -> "dateabs"
      [] a = "DateTime" -> "datetime"
      [] OTHER -> a

\* DateTime::parse_from_rfc3339(value): Ok exactly on a timestamp.
ParsesRfc3339(value) == Len(value) = 1 /\ value[1] \in Timestamps

\* FormattedStatusParams and its Display: Date, DateTime and Time print
\* the inner value, DateAbs prints it with "%A %e %B".
ParamKinds == {"date", "time", "datetime", "dateabs"}

Display(param) ==
    CASE param.kind = "date" ->
           IF param.value = Timestamp1 THEN "2019-08-27+02:00" ELSE "2020-01-02+01:00"
      [] param.kind = "datetime" ->
           IF param.value = Timestamp1 THEN "2019-08-27 12:28:12 +02:00"
           ELSE "2020-01-02 03:04:05 +01:00"
      [] param.kind = "time" ->
           IF param.value = Timestamp1 THEN "12:28:12" ELSE "03:04:05"
      [] param.kind = "dateabs" ->
           IF param.value = Timestamp1 THEN "Tuesday 27 August" ELSE "Thursday  2 January"

\* The position of the first '}' at or after i, 0 when there is none.
RECURSIVE FirstClose(_, _)
FirstClose(text, i) ==
    IF i > Len(text) THEN 0
    ELSE IF text[i] = "}" THEN i
    ELSE FirstClose(text, i + 1)

\* The last position of the run of word atoms that starts at j (j - 1 when
\* text[j] is no word atom): what \w+ consumes.
RECURSIVE WordRunEnd(_, _)
WordRunEnd(text, j) ==
    IF j > Len(text) \/ text[j] \notin WordAtoms THEN j - 1
    ELSE WordRunEnd(text, j + 1)

\* EXTRACT_FORMATTED_PARAMS_REGEX, \{(\w+):([^}]+)\}, tried at position i.
ExtractMatchAt(text, i) ==
    LET k == WordRunEnd(text, i + 1)
        c == FirstClose(text, k + 2)
    IN  IF /\ text[i] = "{"
           /\ k >= i + 1
           /\ k + 1 <= Len(text) /\ text[k + 1] = ":"
           /\ c > k + 2
        THEN [matched |-> TRUE,
              kind |-> [n \in 1..(k - i) |-> ToLowercase(text[i + n])],
              value |-> SubSeq(text, k + 2, c - 1),
              end |-> c]
        ELSE [matched |-> FALSE, kind |-> <<>>, value |-> <<>>, end |-> i]

ParamsOk(params) == [tag |-> "Ok", params |-> params, error |-> ""]
ParamsErr(e) == [tag |-> "Err", params |-> <<>>, error |-> e]

\* FormattedStatus::extract_params: the matches from left to right, none
\* overlapping; the first group whose kind or value is refused ends it.
RECURSIVE ExtractParamsFrom(_, _, _)
ExtractParamsFrom(text, i, params) ==
    IF i > Len(text) THEN ParamsOk(params)
    ELSE LET m == ExtractMatchAt(text, i)
         IN  IF ~m.matched THEN ExtractParamsFrom(text, i + 1, params)
             ELSE IF Len(m.kind) # 1 \/ m.kind[1] \notin ParamKinds
                  THEN ParamsErr("Invalid type")
             ELSE IF ~ParsesRfc3339(m.value) THEN ParamsErr("ParseError")
             ELSE ExtractParamsFrom(text, m.end + 1,
                      Append(params, [kind |-> m.kind[1], value |-> m.value[1]]))

extract_params(text) == ExtractParamsFrom(text, 1, <<>>)

\* REPLACE_FORMATTED_PARAMS_REGEX.replace_all(text, "{}"): every match of
\* \{[^}]+\}, from left to right, becomes "{}".
RECURSIVE ReplaceAllFrom(_, _)
ReplaceAllFrom(text, i) ==
    IF i > Len(text) THEN <<>>
    ELSE LET c == FirstClose(text, i + 1)
         IN  IF text[i] = "{" /\ c > i + 1
             THEN <<"{", "}">> \o ReplaceAllFrom(text, c + 1)
             ELSE <<text[i]>> \o ReplaceAllFrom(text, i + 1)

ReplaceAll(text) == ReplaceAllFrom(text, 1)

\* The position of the first "{}" at or after i, 0 when there is none.
RECURSIVE FindPlaceholder(_, _)
FindPlaceholder(text, i) ==
    IF i + 1 > Len(text) THEN 0
    ELSE IF text[i] = "{" /\ text[i + 1] = "}" THEN i
    ELSE FindPlaceholder(text, i + 1)

\* result.replacen("{}", &param.to_string(), 1)
Replacen(text, param) ==
    LET i == FindPlaceholder(text, 1)
    IN  IF i = 0 THEN text
        ELSE SubSeq(text, 1, i - 1) \o <<Display(param)>> \o SubSeq(text, i + 2, Len(text))

\* FormattedStatus::format: the fold of replacen over the params.
RECURSIVE FormatFrom(_, _, _)
FormatFrom(text, params, n) ==
    IF n > Len(params) THEN text
    ELSE FormatFrom(Replacen(text, params[n]), params, n + 1)

Format(text, params) == FormatFrom(text, params, 1)

\* TryFrom<RawFormattedStatus> for FormattedStatus: the body's params, then
\* the short's, then the two raw texts with every group made a placeholder.
TryFrom(raw) ==
    LET body_params == extract_params(raw.body)
        short_params == extract_params(raw.short)
    IN  IF body_params.tag = "Err" THEN [tag |-> "Err", error |-> body_params.error]
        ELSE IF short_params.tag = "Err" THEN [tag |-> "Err", error |-> short_params.error]
        ELSE [tag |-> "Ok", error |-> "",
              title |-> raw.title,
              body_raw |-> ReplaceAll(raw.body),
              body_params |-> body_params.params,
              short_raw |-> ReplaceAll(raw.short),
              short_params |-> short_params.params]

\* The status texts tried: up to MaxSegments segments, each a brace group
\* or a piece of plain text.
Group(kind, value) == <<"{">> \o kind \o <<":", value, "}">>

GroupSegments ==
    {Group(<<k>>, Timestamp1) : k \in {"date", "DateAbs", "time", "DateTime", "kind"}}
        \cup {Group(<<"date">>, Timestamp2), Group(<<"date">>, "notadate"),
              Group(<<"da", "-", "te">>, Timestamp1)}

Segments == GroupSegments \cup {<<"uur">>, <<" ">>}

RECURSIVE TextsOf(_)
TextsOf(n) ==
    IF n = 0 THEN {<<>>}
    ELSE LET shorter == TextsOf(n - 1)
         IN  shorter \cup {t \o s : t \in shorter, s \in Segments}

BodyTexts == TextsOf(MaxSegments)
ShortTexts == TextsOf(1)

RawStatuses == [title : {"Bezorgd"}, body : BodyTexts, short : ShortTexts]

FormatInit ==
    /\ fsRaw = None
    /\ fsStatus = [tag |-> "none"]
    /\ fsShort = None
    /\ fsBody = None

\* FormattedStatus::try_from(raw)
ConvertStatus ==
    /\ fsRaw = None
    /\ \E raw \in RawStatuses :
         /\ fsRaw' = Some(raw)
         /\ fsStatus' = TryFrom(raw)
    /\ UNCHANGED <<fsShort, fsBody>>

\* FormattedStatus::short()
Short ==
    /\ fsStatus.tag = "Ok"
    /\ fsShort = None
    /\ fsShort' = Some(Format(fsStatus.short_raw, fsStatus.short_params))
    /\ UNCHANGED <<fsRaw, fsStatus, fsBody>>

\* FormattedStatus::body()
Body ==
    /\ fsStatus.tag = "Ok"
    /\ fsBody = None
    /\ fsBody' = Some(Format(fsStatus.body_raw, fsStatus.body_params))
    /\ UNCHANGED <<fsRaw, fsStatus, fsShort>>

(***************************************************************************)
(* dimensions.rs: Dimensions and Weight                                    *)
(***************************************************************************)
\* Texts are sequences of atoms: one character each, except that a unit
\* word ("cm", "gram", ...) is one atom of letters.  NonAsciiDigit is a
\* decimal digit outside ASCII, such as U+0663: \d of the regex crate
\* matches it, f32's FromStr does not read it.
MaxDigits == 1

AsciiDigits == {"0", "2", "5"}
NonAsciiDigit == "U+0663"
RegexDigits == AsciiDigits \cup {NonAsciiDigit}
UnitWords == {"cm", "m", "mm", "CM", "gram", "kg", "g", "KG"}
WordChars == RegexDigits \cup UnitWords \cup {"x", "X"}

DigitValue(c) == CASE c = "0" -> 0 [] c = "2" -> 2 [] c = "5" -> 5

\* The last position of the run of \d that starts at j, j - 1 when
\* text[j] is no digit.
RECURSIVE DigitRunEnd(_, _)
DigitRunEnd(text, j) ==
    IF j > Len(text) \/ text[j] \notin RegexDigits THEN j - 1
    ELSE DigitRunEnd(text, j + 1)

\* \d+(?:,\d+)? at position j: the position of its last character, 0 when
\* it does not match.
NumberEnd(text, j) ==
    LET a == DigitRunEnd(text, j)
        b == DigitRunEnd(text, a + 2)
    IN  IF a < j THEN 0
        ELSE IF a + 1 <= Len(text) /\ text[a + 1] = "," /\ b >= a + 2 THEN b
        ELSE a

\* The literal lit at position j: the position of its last character, 0
\* when the text differs.
LiteralEnd(text, j, lit) ==
    IF j + Len(lit) - 1 <= Len(text) /\ SubSeq(text, j, j + Len(lit) - 1) = lit
    THEN j + Len(lit) - 1
    ELSE 0

\* (\w+)$ at position j.
WordToEnd(text, j) ==
    /\ j <= Len(text)
    /\ \A i \in j..Len(text) : text[i] \in WordChars

Times == <<" ", "x", " ">>
Space == <<" ">>

NoCaptures == [matched |-> FALSE, groups |-> <<>>]

\* A number, then for each following separator another number, then a
\* space and a word up to the end of the text: the captures of
\* (^N) x (N) x (N) (\w+)$ with three numbers, of (^N) (\w+)$ with one.
RECURSIVE CapturesFrom(_, _, _, _)
CapturesFrom(text, j, more, groups) ==
    LET e == NumberEnd(text, j)
        sep == IF more = 0 THEN Space ELSE Times
        s == IF e = 0 THEN 0 ELSE LiteralEnd(text, e + 1, sep)
    IN  IF e = 0 \/ s = 0 THEN NoCaptures
        ELSE IF more > 0
             THEN CapturesFrom(text, s + 1, more - 1, Append(groups, SubSeq(text, j, e)))
        ELSE IF WordToEnd(text, s + 1)
             THEN [matched |-> TRUE,
                   groups |-> Append(Append(groups, SubSeq(text, j, e)),
                                     SubSeq(text, s + 1, Len(text)))]
        ELSE NoCaptures

DimensionsCaptures(text) == CapturesFrom(text, 1, 2, <<>>)
WeightCaptures(text) == CapturesFrom(text, 1, 0, <<>>)

\* Decimal numbers, exactly: mantissa / 10^scale, no trailing zero.
RECURSIVE Normalize(_)
Normalize(v) ==
    IF v.scale > 0 /\ v.mantissa % 10 = 0
    THEN Normalize([mantissa |-> v.mantissa \div 10, scale |-> v.scale - 1])
    ELSE v

RECURSIVE DigitsValue(_, _)
DigitsValue(digits, acc) ==
    IF digits = <<>> THEN acc
    ELSE DigitsValue(Tail(digits), 10 * acc + DigitValue(Head(digits)))

CommaAt(number) ==
    IF \E i \in 1..Len(number) : number[i] = ","
    THEN CHOOSE i \in 1..Len(number) : number[i] = ","
    ELSE 0

\* value.replace(',', ".").parse(): the f32 of an ASCII decimal, an error
\* for any other text.
parse_float(number) ==
    LET c == CommaAt(number)
        digits == IF c = 0 THEN number
                  ELSE SubSeq(number, 1, c - 1) \o SubSeq(number, c + 1, Len(number))
    IN  IF \A i \in 1..Len(digits) : digits[i] \in AsciiDigits
        THEN [ok |-> TRUE,
              value |-> Normalize([mantissa |-> DigitsValue(digits, 0),
                                   scale |-> IF c = 0 THEN 0 ELSE Len(number) - c])]
        ELSE [ok |-> FALSE, value |-> [mantissa |-> 0, scale |-> 0]]

\* Length::new::<unit>(v) and Mass::new::<unit>(v): the quantity in its
\* smaller unit, centimetres and grams.
PerMeter == 100
PerKilogram == 1000
Quantity(v, factor) == Normalize([mantissa |-> v.mantissa * factor, scale |-> v.scale])

ParseErr(e) == [tag |-> "Err", error |-> e]

\* A conversion that takes every unit for centimetres (not the code's).
DimensionsTryFromUnitBlind(text) ==
    LET m == DimensionsCaptures(text)
        h == parse_float(m.groups[1])
        w == parse_float(m.groups[2])
        d == parse_float(m.groups[3])
    IN  IF ~m.matched THEN ParseErr("Invalid formatted dimensions, not matched")
        ELSE IF ~h.ok \/ ~w.ok \/ ~d.ok THEN ParseErr("Invalid formatted dimensions")
        ELSE IF m.groups[4] \in {<<"cm">>, <<"m">>}
             THEN [tag |-> "Ok", error |-> "",
                   height |-> Quantity(h.value, 1),
                   width |-> Quantity(w.value, 1),
                   depth |-> Quantity(d.value, 1)]
        ELSE ParseErr("Unsupported unit")

\* TryFrom<String> for Dimensions
DimensionsTryFrom(text) ==
    LET m == DimensionsCaptures(text)
        h == parse_float(m.groups[1])
        w == parse_float(m.groups[2])
        d == parse_float(m.groups[3])
        unit == m.groups[4]
        factor == IF unit = <<"cm">> THEN 1 ELSE PerMeter
    IN  IF ~m.matched THEN ParseErr("Invalid formatted dimensions, not matched")
        ELSE IF ~h.ok \/ ~w.ok \/ ~d.ok THEN ParseErr("Invalid formatted dimensions")
        ELSE IF unit \in {<<"cm">>, <<"m">>}
             THEN [tag |-> "Ok", error |-> "",
                   height |-> Quantity(h.value, factor),
                   width |-> Quantity(w.value, factor),
                   depth |-> Quantity(d.value, factor)]
        ELSE ParseErr("Unsupported unit")

\* A conversion that takes every unit for grams (not the code's).
WeightTryFromUnitBlind(text) ==
    LET m == WeightCaptures(text)
        weight == parse_float(m.groups[1])
    IN  IF ~m.matched THEN ParseErr("Malformed weight")
        ELSE IF ~weight.ok THEN ParseErr("Invalid formatted dimensions")
        ELSE IF m.groups[2] \in {<<"gram">>, <<"kg">>}
             THEN [tag |-> "Ok", error |-> "", mass |-> Quantity(weight.value, 1)]
        ELSE ParseErr("Unsupported unit")

\* TryFrom<String> for Weight
WeightTryFrom(text) ==
    LET m == WeightCaptures(text)
        weight == parse_float(m.groups[1])
        unit == m.groups[2]
        factor == IF unit = <<"gram">> THEN 1 ELSE PerKilogram
    IN  IF ~m.matched THEN ParseErr("Malformed weight")
        ELSE IF ~weight.ok THEN ParseErr("Invalid formatted dimensions")
        ELSE IF unit \in {<<"gram">>, <<"kg">>}
             THEN [tag |-> "Ok", error |-> "", mass |-> Quantity(weight.value, factor)]
        ELSE ParseErr("Unsupported unit")

\* The texts tried.  Numbers have up to MaxDigits digits before and after
\* the comma; the other pieces are the right ones and near misses.
RECURSIVE DigitRuns(_)
DigitRuns(n) ==
    IF n = 0 THEN {<<>>}
    ELSE LET shorter == DigitRuns(n - 1)
         IN  shorter \cup {r \o <<c>> : r \in shorter, c \in RegexDigits}

Numbers ==
    LET runs == DigitRuns(MaxDigits) \ {<<>>}
    IN  runs \cup {a \o <<",">> \o b : a \in runs, b \in runs}

NearNumbers == {<<>>, <<",", "5">>, <<"2", ",">>, <<"2", ".", "5">>, <<"-", "2">>}

Widths == {<<"5">>, <<"2", ",", "0">>, <<NonAsciiDigit>>, <<"2", ",">>}
Depths == {<<"2", "0", ",", "5">>, <<"0">>}
FirstSeparators == {Times, <<"x">>, <<" ", "X", " ">>}
LastSeparators == {Space, <<>>}
LengthUnits == {<<"cm">>, <<"m">>, <<"mm">>, <<"CM">>, <<"cm", " ">>, <<>>}
MassUnits == {<<"gram">>, <<"kg">>, <<"g">>, <<"KG">>, <<"kg", " ">>, <<>>}

DimensionTexts ==
    {h \o s1 \o w \o Times \o d \o s3 \o u :
        h \in Numbers \cup NearNumbers, s1 \in FirstSeparators, w \in Widths,
        d \in Depths, s3 \in LastSeparators, u \in LengthUnits}

WeightTexts ==
    {n \o s \o u :
        n \in Numbers \cup NearNumbers \cup Depths,
        s \in LastSeparators \cup {<<" ", " ">>}, u \in MassUnits}

DimensionsInit ==
    /\ dmInput = None
    /\ dmResult = [tag |-> "none"]

WeightInit ==
    /\ wtInput = None
    /\ wtResult = [tag |-> "none"]

\* Dimensions::try_from(text)
ParseDimensions ==
    /\ dmInput = None
    /\ \E text \in DimensionTexts :
         /\ dmInput' = Some(text)
         /\ dmResult' = DimensionsTryFrom(text)

\* Weight::try_from(text)
ParseWeight ==
    /\ wtInput = None
    /\ \E text \in WeightTexts :
         /\ wtInput' = Some(text)
         /\ wtResult' = WeightTryFrom(text)

(***************************************************************************)
(* lib.rs: the Token objects of authenticate(), followed from the response *)
(* that made them to the slot and out of it.  A Token is moved, never      *)
(* cloned: `take()` moves it out of the slot, `Ok(token)` and `replace()`  *)
(* move it on.                                                             *)
(***************************************************************************)
EmptySlot == [object |-> 0, placement |-> 0]

MovesInit ==
    /\ mvMinted = 0
    /\ mvPlaced = 0
    /\ mvSlot = EmptySlot
    /\ mvHeld = [c \in Calls |-> 0]
    /\ mvNew = [c \in Calls |-> 0]
    /\ mvTakes = [p \in 1..(MaxInvocations + 1) |-> 0]
    /\ mvRefreshes = [k \in 1..(MaxInvocations + 1) |-> 0]

\* authenticate() up to its first await: the object in the slot, if any,
\* moves to the call; a stale one goes into the refresh POST, a fresh one
\* is what the call will store.
TakeObject(c) ==
    /\ Take(c, "check_credentials")
    /\ mvSlot' = IF token' = None THEN EmptySlot ELSE mvSlot
    /\ mvHeld' = [mvHeld EXCEPT ![c] = mvSlot.object]
    /\ mvNew' = [mvNew EXCEPT ![c] = IF pc'[c] = "store" THEN mvSlot.object ELSE 0]
    /\ mvTakes' = IF token = None THEN mvTakes
                  ELSE [mvTakes EXCEPT ![mvSlot.placement] = @ + 1]
    /\ mvRefreshes' = IF pc'[c] = "refresh"
                      THEN [mvRefreshes EXCEPT ![mvSlot.object] = @ + 1]
                      ELSE mvRefreshes
    /\ UNCHANGED <<mvMinted, mvPlaced>>

\* response.json() made a Token: a new object.
Decoded(c) ==
    IF pc'[c] = "store"
    THEN /\ mvMinted' = mvMinted + 1
         /\ mvNew' = [mvNew EXCEPT ![c] = mvMinted + 1]
    ELSE UNCHANGED <<mvMinted, mvNew>>

RefreshObject(c) ==
    /\ RefreshResponse(c)
    /\ Decoded(c)
    /\ UNCHANGED <<mvPlaced, mvSlot, mvHeld, mvTakes, mvRefreshes>>

NewTokenObject(c) ==
    /\ NewTokenResponse(c)
    /\ Decoded(c)
    /\ UNCHANGED <<mvPlaced, mvSlot, mvHeld, mvTakes, mvRefreshes>>

\* replace(new_token): the call's object moves into the slot.
StoreObject(c) ==
    /\ Store(c)
    /\ mvPlaced' = mvPlaced + 1
    /\ mvSlot' = [object |-> mvNew[c], placement |-> mvPlaced + 1]
    /\ mvNew' = [mvNew EXCEPT ![c] = 0]
    /\ UNCHANGED <<mvMinted, mvHeld, mvTakes, mvRefreshes>>

Init ==
    /\ ClientInit /\ TokenInit /\ AuthInit /\ MintInit /\ PkceInit
    /\ FormatInit /\ DimensionsInit /\ WeightInit /\ MovesInit
    /\ lgResponse = None

Next ==
    \/ \E c \in Calls :
         Take(c, "check_credentials") /\ UNCHANGED <<tokenVars, authVars, dataVars, observerVars>>
    \/ \E c \in Calls : RefreshResponse(c) /\ UNCHANGED <<tokenVars, authVars, dataVars, observerVars>>
    \/ \E c \in Calls : NewTokenResponse(c) /\ UNCHANGED <<tokenVars, authVars, dataVars, observerVars>>
    \/ \E c \in Calls : Store(c) /\ UNCHANGED <<tokenVars, authVars, dataVars, observerVars>>
    \/ Tick /\ UNCHANGED <<tokenVars, authVars, dataVars, observerVars>>

Spec == Init /\ [][Next]_vars

\* Spec with requests that complete and a lock that is granted: a pending
\* POST gets its response or its transport error, and a call that waits for
\* the Mutex gets it, since every critical section ends within its own step.
\* Nothing obliges a caller to start a call.
Completes(c) ==
    (RefreshResponse(c) \/ NewTokenResponse(c))
    /\ UNCHANGED <<tokenVars, authVars, dataVars, observerVars>>

Stores(c) == Store(c) /\ UNCHANGED <<tokenVars, authVars, dataVars, observerVars>>

SpecLive ==
    Spec /\ \A c \in Calls : WF_vars(Completes(c)) /\ WF_vars(Stores(c))

\* One caller that runs check_credentials() and get_packages() calls.
NextPackages ==
    \/ \E o \in Ops : Take(1, o) /\ UNCHANGED <<tokenVars, authVars, dataVars, observerVars>>
    \/ RefreshResponse(1) /\ UNCHANGED <<tokenVars, authVars, dataVars, observerVars>>
    \/ NewTokenResponse(1) /\ UNCHANGED <<tokenVars, authVars, dataVars, observerVars>>
    \/ Store(1) /\ UNCHANGED <<tokenVars, authVars, dataVars, observerVars>>
    \/ ShipmentsResponse(1) /\ UNCHANGED <<tokenVars, authVars, dataVars, observerVars>>
    \/ Tick /\ UNCHANGED <<tokenVars, authVars, dataVars, observerVars>>

SpecPackages == Init /\ [][NextPackages]_vars

NextToken ==
    \/ MintLib /\ UNCHANGED <<clientVars, authVars, dataVars, observerVars>>
    \/ MintAuth /\ UNCHANGED <<clientVars, authVars, dataVars, observerVars>>
    \/ CheckNeedRefresh /\ UNCHANGED <<clientVars, authVars, dataVars, observerVars>>
    \/ TokenTick /\ UNCHANGED <<clientVars, authVars, dataVars, observerVars>>

SpecToken == Init /\ [][NextToken]_vars

\* login(), then generate_token() calls of one caller, one after another.
NextAuth ==
    \/ StartLogin
       /\ UNCHANGED <<clientVars, tokenVars, mintVars, pkParams, dataVars, observerVars>>
    \/ LoginPageResponse
       /\ UNCHANGED <<clientVars, tokenVars, mintVars, pkParams, dataVars, observerVars>>
    \/ VerificationResponse
       /\ UNCHANGED <<clientVars, tokenVars, mintVars, pkParams, dataVars, observerVars>>
    \/ CredentialsResponse
       /\ UNCHANGED <<clientVars, tokenVars, mintVars, pkParams, dataVars, observerVars>>
    \/ StartGenerateToken(1)
       /\ UNCHANGED <<clientVars, tokenVars, handlerVars, pkParams, dataVars, observerVars>>
    \/ AuthorizeResponse(1)
       /\ UNCHANGED <<clientVars, tokenVars, handlerVars, pkParams, dataVars, observerVars>>
    \/ TokenResponse(1)
       /\ UNCHANGED <<clientVars, tokenVars, handlerVars, pkParams, dataVars, observerVars>>

SpecAuth == Init /\ [][NextAuth]_vars

\* Concurrent generate_token() calls on a LoggedIn handler.
InitMint ==
    /\ ClientInit /\ build = "release"
    /\ TokenInit /\ LoggedInInit /\ MintInit /\ PkceInit
    /\ FormatInit /\ DimensionsInit /\ WeightInit /\ MovesInit
    /\ lgResponse = None

NextMint ==
    \/ \E g \in MintCalls :
         StartGenerateToken(g)
         /\ UNCHANGED <<clientVars, tokenVars, handlerVars, pkParams, dataVars, observerVars>>
    \/ \E g \in MintCalls :
         AuthorizeResponse(g)
         /\ UNCHANGED <<clientVars, tokenVars, handlerVars, pkParams, dataVars, observerVars>>
    \/ \E g \in MintCalls :
         TokenResponse(g)
         /\ UNCHANGED <<clientVars, tokenVars, handlerVars, pkParams, dataVars, observerVars>>

SpecMint == InitMint /\ [][NextMint]_vars

\* AuthorizationParams::new() for every verifier.
NextPkce ==
    \/ NewParams
       /\ UNCHANGED <<clientVars, tokenVars, handlerVars, mintVars, dataVars, observerVars>>

SpecPkce == Init /\ [][NextPkce]_vars

\* One raw status converted, then short() and body() on the result.
NextFormat ==
    \/ ConvertStatus
       /\ UNCHANGED <<clientVars, tokenVars, authVars, dimensionVars, weightVars, observerVars>>
    \/ Short
       /\ UNCHANGED <<clientVars, tokenVars, authVars, dimensionVars, weightVars, observerVars>>
    \/ Body
       /\ UNCHANGED <<clientVars, tokenVars, authVars, dimensionVars, weightVars, observerVars>>

SpecFormat == Init /\ [][NextFormat]_vars

\* Concurrent check_credentials() calls, each Token object followed.
\* They start after an earlier call has stored the token of a response.
CachedTokens ==
    {r.token[1] : r \in {x \in {ResponseJson(b, 0, "release") : b \in LibBodies} :
                              x.tag = "Ok"}}

InitMoves ==
    /\ ClientIdle /\ build = "release"
    /\ token \in {Some(t) : t \in CachedTokens}
    /\ TokenInit /\ AuthInit /\ MintInit /\ PkceInit
    /\ FormatInit /\ DimensionsInit /\ WeightInit
    /\ mvMinted = 1
    /\ mvPlaced = 1
    /\ mvSlot = [object |-> 1, placement |-> 1]
    /\ mvHeld = [c \in Calls |-> 0]
    /\ mvNew = [c \in Calls |-> 0]
    /\ mvTakes = [p \in 1..(MaxInvocations + 1) |-> 0]
    /\ mvRefreshes = [k \in 1..(MaxInvocations + 1) |-> 0]
    /\ lgResponse = None

\* Two callers race for it.
MoveCalls == {1, NumCalls}

NextMoves ==
    \/ \E c \in MoveCalls :
         TakeObject(c) /\ UNCHANGED <<tokenVars, authVars, dataVars, lgResponse>>
    \/ \E c \in MoveCalls :
         RefreshObject(c) /\ UNCHANGED <<tokenVars, authVars, dataVars, lgResponse>>
    \/ \E c \in MoveCalls :
         NewTokenObject(c) /\ UNCHANGED <<tokenVars, authVars, dataVars, lgResponse>>
    \/ \E c \in MoveCalls :
         StoreObject(c) /\ UNCHANGED <<tokenVars, authVars, dataVars, lgResponse>>
    \/ Tick /\ UNCHANGED <<tokenVars, authVars, dataVars, observerVars>>

SpecMoves == InitMoves /\ [][NextMoves]_vars

\* One caller's check_credentials() calls, the answer to each full-login
\* POST kept, with statuses at both ends of the 4xx range.
LoginStatuses == Statuses \cup {302, 399, 401, 499, 503}
LoginResponses ==
    {NetErr} \cup [sent : {TRUE}, status : LoginStatuses, body : LibBodies]

NextLogin ==
    \/ Take(1, "check_credentials") /\ lgResponse' = None
       /\ UNCHANGED <<tokenVars, authVars, dataVars, moveVars>>
    \/ RefreshResponse(1)
       /\ UNCHANGED <<tokenVars, authVars, dataVars, observerVars>>
    \/ \E resp \in LoginResponses :
         NewTokenAnswer(1, resp) /\ lgResponse' = Some(resp)
         /\ UNCHANGED <<tokenVars, authVars, dataVars, moveVars>>
    \/ Store(1)
       /\ UNCHANGED <<tokenVars, authVars, dataVars, observerVars>>
    \/ Tick
       /\ UNCHANGED <<tokenVars, authVars, dataVars, observerVars>>

SpecLogin == Init /\ [][NextLogin]_vars

\* Dimensions::try_from on one text.
NextDimensions ==
    \/ ParseDimensions
       /\ UNCHANGED <<clientVars, tokenVars, authVars, formatVars, weightVars, observerVars>>

SpecDimensions == Init /\ [][NextDimensions]_vars

\* Weight::try_from on one text.
NextWeight ==
    \/ ParseWeight
       /\ UNCHANGED <<clientVars, tokenVars, authVars, formatVars, dimensionVars, observerVars>>

SpecWeight == Init /\ [][NextWeight]_vars

(***************************************************************************)
(* Claims about PostNL::authenticate, checked under Spec.                  *)
(***************************************************************************)
InFlight(c) == pc[c] \in {"refresh", "new_token"}
Finished(c) == pc[c] \in {"done", "failed", "panicked"}
RefreshAnswered(c) == refreshStatus[c] # 0

\* C1: when the refresh POST of a stale token is answered with a non-2xx
\* status, the call goes on to a full login (the login POST follows the
\* refresh POST) and what authenticate() returns is what that full login
\* returned: its token's access token, or its error.
C1_RefreshFailureFallsBack ==
    \A c \in Calls :
        (RefreshAnswered(c) /\ ~IsSuccess(refreshStatus[c])) =>
            /\ held[c] # None /\ stale[c]
            /\ sent[c] = <<"refresh", "login">>
            /\ pc[c] = "new_token" => result[c] = NoResult
            /\ pc[c] \in {"store", "done"} => ntResult[c] = "Ok"
            /\ pc[c] = "done" => result[c] = OkAccess(newTok[c][1].access)
            /\ pc[c] \in {"failed", "panicked"} => result[c] = ErrAccess(ntResult[c])

C1_Witness ==
    \E c \in Calls :
        /\ refreshStatus[c] = 400
        /\ pc[c] = "done"
        /\ result[c].tag = "Ok"

\* C2 (as claimed): when the refresh POST is answered with a 2xx status and a
\* body that is no token, the call falls back to the full login, so a decode
\* error reaches the caller only after the login POST was sent.
C2_RefreshDecodeFailureFallsBack ==
    \A c \in Calls :
        (RefreshAnswered(c) /\ IsSuccess(refreshStatus[c])
            /\ result[c].tag = "JSONError") =>
                sent[c] = <<"refresh", "login">>

\* C3: a call that took a token that is not due for refresh sends no request,
\* returns that token's access token, and its store leaves the very same token
\* (access, refresh credential, expiry) in the slot.
C3_FreshTokenKept ==
    [][\A c \in Calls :
        (pc[c] = "store" /\ pc'[c] = "done" /\ held[c] # None /\ ~stale[c]) =>
            /\ token' = held[c]
            /\ sent'[c] = <<>>
            /\ result'[c] = OkAccess(held[c][1].access)]_vars

C3_Witness ==
    \E c \in Calls :
        /\ pc[c] = "done"
        /\ held[c] # None /\ ~stale[c]
        /\ token = held[c]
        /\ sent[c] = <<>>

\* C4: the step by which authenticate() returns successfully stores a token in
\* the slot, the access token returned is that of the stored token, and after
\* an empty slot the token is the one a full login returned.
C4_SuccessStoresToken ==
    [][\A c \in Calls :
        (result[c].tag # "Ok" /\ result'[c].tag = "Ok") =>
            /\ token' # None
            /\ token' = newTok[c]
            /\ result'[c].access = token'[1].access
            /\ held[c] = None => (sent[c] = <<"login">> /\ ntResult[c] = "Ok")]_vars

C4_Witness ==
    \E c \in Calls :
        /\ pc[c] = "done"
        /\ held[c] = None
        /\ token # None
        /\ result[c] = OkAccess(token[1].access)

\* C5: no call holds the cache lock while one of its requests is in flight,
\* so calls are not serialized across their network calls.
C5_LockNotHeldAcrossRequests ==
    \A c \in Calls : InFlight(c) => mutex # c

\* Two calls that both found the slot empty, each with its own login POST in
\* flight.
C5_Witness ==
    \E c, d \in Calls :
        /\ c # d
        /\ pc[c] = "new_token" /\ held[c] = None /\ sent[c] = <<"login">>
        /\ pc[d] = "new_token" /\ held[d] = None /\ sent[d] = <<"login">>

(***************************************************************************)
(* Claims about the Token types, checked under SpecToken.                  *)
(***************************************************************************)
HasSuccessFields(b) ==
    b.json /\ b.access_token # Absent /\ b.id_token # Absent /\ b.expires_in # Absent
HasErrorField(b) == b.json /\ b.error # AbsentText

\* The body is a well-formed token of the endpoint that was asked.
WellFormedToken ==
    \/ tkKind = "lib" /\ tkBody.json /\ tkBody.access_token # Absent
          /\ tkBody.refresh_token # Absent /\ tkBody.expires_in # Absent
    \/ tkKind = "auth" /\ HasSuccessFields(tkBody) /\ ~HasErrorField(tkBody)

\* C6 (as claimed): for every declared expires_in, also one below 15, a token
\* is minted and its expiry is the mint time plus (expires_in - 15).
C6_ExpiryIsMintPlusTtlMinusMargin ==
    WellFormedToken =>
        /\ tkOutcome.tag = "Ok"
        /\ tkOutcome.token[1].expires = tkMintedAt + (tkBody.expires_in - Margin)

\* C7 (as claimed): need_refresh is true exactly when the expiry is strictly
\* earlier than the clock, and it is false at the instant of minting.
C7_NeedRefreshFalseAtMint ==
    tkCheck # None =>
        LET k == tkCheck[1]
            t == tkOutcome.token[1]
        IN  /\ k.due <=> t.expires < k.at
            /\ k.at = tkMintedAt => ~k.due

\* C7 (amended): need_refresh is true exactly when the expiry is strictly
\* earlier than the clock: false at every instant up to and including the
\* expiry, true at every instant after it; at the instant of minting it is
\* false when expires_in is at least 15, and true when it is smaller.
C7_NeedRefreshIffExpired ==
    tkCheck # None =>
        LET k == tkCheck[1]
            t == tkOutcome.token[1]
        IN  /\ k.due <=> t.expires < k.at
            /\ k.at <= t.expires => ~k.due
            /\ k.at > t.expires => k.due
            /\ k.at = tkMintedAt => (k.due <=> tkBody.expires_in < Margin)

\* need_refresh asked at the expiry instant itself, after the clock has moved.
C7_Witness ==
    /\ tkCheck # None
    /\ tkCheck[1].at = tkOutcome.token[1].expires
    /\ tkCheck[1].at > tkMintedAt
    /\ ~tkCheck[1].due

\* C8 (as claimed): the success shape is tried first, so a body that carries
\* access_token, id_token and expires_in decodes to a success Token.
C8_SuccessShapeFirst ==
    (tkKind = "auth" /\ HasSuccessFields(tkBody)) => tkOutcome.tag = "Ok"

HasBotDetectedTrue(q) == \E i \in 1..Len(q) : q[i] = <<"botdetected", "true">>

\* C10 (as claimed): whenever the redirect answering the credentials POST has
\* botdetected=true in its query string, login() fails with Blocked and with
\* no other error; when it has not, login() does not fail with Blocked.
C10_BotDetectedMeansBlocked ==
    (ahState \in {"LoggedIn", "Failed"} /\ "POST login" \in {ahSent[i] : i \in 1..Len(ahSent)}
        /\ ahLocation.present /\ ahLocation.parses) =>
            (HasBotDetectedTrue(ahLocation.query) <=> ahResult = "Blocked")

(***************************************************************************)
(* Claims about AuthHandler::generate_token, checked under SpecAuth (one   *)
(* call at a time, after login) and SpecMint (concurrent calls).           *)
(***************************************************************************)
\* Call g has seen a redirect whose URL parsed.
SawRedirect(g) == gt[g].redirect # None /\ gt[g].redirect[1].parses
\* The redirect call g saw carries an `error` pair.
SawErrorParam(g) == SawRedirect(g) /\ gt[g].redirect[1].pairs["error"] # AbsentText

\* C11 (as claimed): when the query string of the authorize redirect carries
\* an `error` parameter, generate_token fails with AuthorizationFailure
\* carrying that parameter's value, and with no other kind of error.
C11_ErrorParamMeansAuthorizationFailure ==
    SawErrorParam(1) =>
        /\ gt[1].pc = "failed"
        /\ gt[1].result = AuthErr("AuthorizationFailure",
                                  gt[1].redirect[1].pairs["error"])

\* C12: when the authorize response is delivered without a Location header,
\* or with one that Url::parse refuses, generate_token fails with
\* AuthorizationFailure ("No or invalid redirect url") and the call has sent
\* the authorize GET only: no token POST.
C12_NoRedirectUrlMeansAuthorizationFailure ==
    (gt[1].redirect # None /\ ~gt[1].redirect[1].parses) =>
        /\ gt[1].pc = "failed"
        /\ gt[1].result = AuthErr("AuthorizationFailure", "No or invalid redirect url")
        /\ gt[1].sent = <<"GET authorize">>
        /\ gt[1].tokenReq = None

\* The authorize response carried a Location header that did not parse.
C12_Witness ==
    /\ gt[1].redirect # None
    /\ gt[1].redirect[1].present /\ ~gt[1].redirect[1].parses
    /\ gt[1].pc = "failed"

\* C13: every generate_token call makes its own PKCE parameters; the
\* challenge in its authorize request is the challenge of its own verifier,
\* and the token POST it sends carries that same verifier together with the
\* code of the redirect this call received, also when calls on one handler
\* interleave.
C13_VerifierBoundToItsCall ==
    \A g \in MintCalls :
        gt[g].pc # "idle" =>
            /\ gt[g].params # None
            /\ gt[g].params[1].code_verifier \in Verifiers
            /\ gt[g].params[1] = AuthorizationParamsNew(gt[g].params[1].code_verifier)
            /\ gt[g].authorizeReq =
                  Some([code_challenge |-> CodeChallenge(gt[g].params[1].code_verifier)])
            /\ gt[g].tokenReq # None =>
                  /\ SawRedirect(g)
                  /\ gt[g].tokenReq[1].code_verifier = gt[g].params[1].code_verifier
                  /\ gt[g].tokenReq[1].code = gt[g].redirect[1].pairs["code"]

\* Two calls with different verifiers and different codes have both sent
\* their token POST and neither has been answered.
C13_Witness ==
    /\ gt[1].pc = "token" /\ gt[2].pc = "token"
    /\ gt[1].params[1].code_verifier # gt[2].params[1].code_verifier
    /\ gt[1].tokenReq[1].code # gt[2].tokenReq[1].code

(***************************************************************************)
(* Claims about AuthorizationParams::new, checked under SpecPkce.          *)
(***************************************************************************)
\* C14 (as claimed): for every code verifier the code challenge is the
\* base64url encoding without padding of SHA-256(verifier): the same text for
\* the same verifier, and a text without "+", "/" and "=".
C14_ChallengeIsBase64UrlNoPad ==
    pkParams # None =>
        LET p == pkParams[1] IN
        /\ p.code_challenge = CodeChallengeUrlSafe(p.code_verifier)
        /\ \A i \in 1..Len(p.code_challenge) :
               p.code_challenge[i] \notin {"+", "/", "="}

(***************************************************************************)
(* Claims about login() and the order of requests, checked under SpecAuth. *)
(***************************************************************************)
\* C15: when the body of the login page has no __RequestVerificationToken
\* match, login() fails with NoRequestValidationToken, and the login-page GET
\* is the only request it has sent: neither the verification POST nor the
\* credentials POST follows.
C15_MissingTokenStopsLogin ==
    (ahPage # None /\ ~ahPage[1].token) =>
        /\ ahState = "Failed"
        /\ ahResult = "NoRequestValidationToken"
        /\ ahSent = <<"GET login">>

\* A login page without the token pattern, but with a static URL, arrived.
C15_Witness ==
    /\ ahPage = Some([token |-> FALSE, static |-> TRUE])
    /\ ahState = "Failed"

\* C16: the handler becomes LoggedIn only by the step in which login()
\* returns Ok, and stays LoggedIn from then on; a login() that failed leaves
\* no handler (Failed is final), no state leads back to New, and every step
\* of generate_token is taken on a LoggedIn handler whose login() returned Ok.
C16_TypestateOneWay ==
    [][/\ (ahState' = "LoggedIn" /\ ahState # "LoggedIn") =>
              (ahState = "credentials" /\ ahResult' = "Ok")
       /\ ahState = "LoggedIn" => (ahState' = "LoggedIn" /\ ahResult' = "Ok")
       /\ ahState = "Failed" => ahState' = "Failed"
       /\ ahState # "New" => ahState' # "New"
       /\ gt' # gt => (ahState = "LoggedIn" /\ ahResult = "Ok")]_vars

\* After a login() that returned Ok, a generate_token call has sent its token
\* POST.
C16_Witness ==
    /\ ahState = "LoggedIn" /\ ahResult = "Ok"
    /\ gt[1].pc = "token"

\* The requests of one login() and the generate_token() call after it.
RequestOrder ==
    <<"GET login", "POST verification", "POST login", "GET authorize", "POST token">>
RequestsSent == ahSent \o gt[1].sent
WasSent(req) == \E i \in 1..Len(RequestsSent) : RequestsSent[i] = req

\* C17: the requests of a login and a token mint are sent in the order
\* login-page GET, verification POST, credentials POST, authorize GET, token
\* POST, none of them twice (what has been sent is a prefix of that order),
\* and each one only after the step before it has succeeded: the page gave
\* both patterns, the verification answered success, login() returned Ok, the
\* redirect gave a code and no error.
C17_RequestsInOrder ==
    /\ RequestsSent = SubSeq(RequestOrder, 1, Len(RequestsSent))
    /\ WasSent("POST verification") =>
          ahPage = Some([token |-> TRUE, static |-> TRUE])
    /\ WasSent("POST login") => ahValidation = Some(Validated)
    /\ WasSent("GET authorize") =>
          /\ ahState = "LoggedIn" /\ ahResult = "Ok"
          /\ ~(GetRedirectUrl(ahLocation) # None /\ BotDetected(ahLocation.query))
    /\ WasSent("POST token") =>
          /\ SawRedirect(1) /\ ~SawErrorParam(1)
          /\ gt[1].code # None
          /\ gt[1].redirect[1].pairs["code"] = gt[1].code[1].code

\* All five requests have been sent and the token has been minted.
C17_Witness ==
    /\ RequestsSent = RequestOrder
    /\ gt[1].pc = "done" /\ gt[1].result.tag = "Ok"

\* do_login has found the bot-detection marker in the redirect that answered
\* the credentials POST.
ReportedBlocked ==
    GetRedirectUrl(ahLocation) # None /\ BotDetected(GetRedirectUrl(ahLocation)[1])

\* C19: once do_login has reported Blocked, login() has returned Blocked, no
\* handler is left, and the attempt has sent its three login requests and
\* nothing else: the credentials POST once, no authorize GET, no token POST.
C19_BlockedEndsAttempt ==
    ReportedBlocked =>
        /\ ahState = "Failed"
        /\ ahResult = "Blocked"
        /\ ahSent = <<"GET login", "POST verification", "POST login">>
        /\ gt[1] = MintIdle

\* The credentials POST was answered with a redirect that carries
\* botdetected=true.
C19_Witness ==
    /\ ahLocation.present /\ ahLocation.parses
    /\ ahLocation.query = <<<<"botdetected", "true">>>>
    /\ ahResult = "Blocked"

(***************************************************************************)
(* Claims about the client's public operations, checked under              *)
(* SpecPackages.                                                           *)
(***************************************************************************)
\* What the public operation of call c returned, "none" while it runs.
OperationResult(c) ==
    IF pc[c] \in {"packages", "packages_failed"} THEN pkResult[c]
    ELSE IF pc[c] \in {"failed", "panicked"} THEN result[c].tag
    ELSE IF pc[c] = "done" THEN "Ok"
    ELSE "none"

NoRequestTwice(c) ==
    \A i, j \in 1..Len(sent[c]) : sent[c][i] = sent[c][j] => i = j

ShipmentsSent(c) == \E i \in 1..Len(sent[c]) : sent[c][i] = "shipments"

\* C20: a get_packages call sends the shipments request only after its own
\* authenticate() has returned Ok, as the last of its requests, once, and with
\* the access token that authenticate() returned as the Bearer credential;
\* when authenticate() fails, no shipments request is sent and get_packages
\* returns authenticate()'s error.
C20_ShipmentsAfterAuthenticate ==
    /\ ShipmentsSent(1) =>
          /\ op[1] = "get_packages"
          /\ result[1].tag = "Ok"
          /\ bearer[1] = result[1].access
          /\ sent[1][Len(sent[1])] = "shipments"
          /\ NoRequestTwice(1)
    /\ (op[1] = "get_packages" /\ pc[1] \in {"shipments", "packages", "packages_failed"}) =>
          ShipmentsSent(1)
    /\ (op[1] = "get_packages" /\ pc[1] \in {"failed", "panicked"}) =>
          /\ ~ShipmentsSent(1)
          /\ bearer[1] = 0
    /\ (op[1] = "get_packages" /\ pc[1] = "failed") =>
          /\ result[1].tag \in {"NetworkError", "JSONError", "Authentication"}
          /\ OperationResult(1) = result[1].tag

\* A get_packages call found a stale token, refreshed it into another one and
\* got its packages with the new access token.
C20_Witness ==
    /\ op[1] = "get_packages" /\ pc[1] = "packages"
    /\ held[1] # None /\ held[1][1].access # bearer[1]
    /\ bearer[1] = result[1].access

\* C21: when the verification answer has success = false, login() fails with
\* VerificationFailure carrying the provider's error text, or "no error
\* provided" when the answer has none, and the credentials POST is not sent.
C21_VerificationFailureCarriesText ==
    (ahValidation # None /\ ahValidation[1].decodes /\ ~ahValidation[1].success) =>
        /\ ahState = "Failed"
        /\ ahResult = "VerificationFailure"
        /\ ahError = IF ahValidation[1].error = AbsentText
                     THEN "no error provided"
                     ELSE ahValidation[1].error
        /\ ahSent = <<"GET login", "POST verification">>

\* The verification answered success = false without an error text.
C21_Witness ==
    /\ ahValidation = Some([decodes |-> TRUE, success |-> FALSE, error |-> AbsentText])
    /\ ahResult = "VerificationFailure"


(***************************************************************************)
(* Claims about FormattedStatus, checked under SpecFormat.                 *)
(***************************************************************************)

\* The brace groups of a text as a reader sees them: from a '{' to the next
\* '}', the kind before the first ':' and the value after it.
RECURSIVE BraceGroupsFrom(_, _)
BraceGroupsFrom(text, i) ==
    IF i > Len(text) THEN <<>>
    ELSE LET c == FirstClose(text, i + 1)
         IN  IF text[i] = "{" /\ c # 0
             THEN <<[from |-> i, to |-> c]>> \o BraceGroupsFrom(text, c + 1)
             ELSE BraceGroupsFrom(text, i + 1)

BraceGroups(text) == BraceGroupsFrom(text, 1)

HasColon(text, g) == \E j \in (g.from + 1)..(g.to - 1) : text[j] = ":"

FirstColon(text, g) ==
    CHOOSE j \in (g.from + 1)..(g.to - 1) :
        text[j] = ":" /\ \A h \in (g.from + 1)..(j - 1) : text[h] # ":"

GroupKind(text, g) ==
    LET j == FirstColon(text, g)
    IN  [n \in 1..(j - g.from - 1) |-> ToLowercase(text[g.from + n])]

GroupValue(text, g) == SubSeq(text, FirstColon(text, g) + 1, g.to - 1)

KnownKind(text, g) ==
    /\ HasColon(text, g)
    /\ GroupKind(text, g) \in {<<k>> : k \in ParamKinds}

\* {kind:value} with one of the four kinds and a value that is a timestamp.
Renders(text, g) == KnownKind(text, g) /\ ParsesRfc3339(GroupValue(text, g))

\* {kind:value} with a kind that is none of the four.
OtherKind(text, g) ==
    /\ HasColon(text, g)
    /\ GroupKind(text, g) # <<>>
    /\ GroupKind(text, g) \notin {<<k>> : k \in ParamKinds}

AllGroupsRender(text) ==
    \A n \in 1..Len(BraceGroups(text)) : Renders(text, BraceGroups(text)[n])

SomeOtherKind(text) ==
    \E n \in 1..Len(BraceGroups(text)) : OtherKind(text, BraceGroups(text)[n])

\* The text with every group replaced by the rendering of its own value.
RECURSIVE RenderedFrom(_, _)
RenderedFrom(text, i) ==
    IF i > Len(text) THEN <<>>
    ELSE LET c == FirstClose(text, i + 1)
             g == [from |-> i, to |-> c]
         IN  IF text[i] = "{" /\ c # 0
             THEN <<Display([kind |-> GroupKind(text, g)[1],
                             value |-> GroupValue(text, g)[1]])>>
                      \o RenderedFrom(text, c + 1)
             ELSE <<text[i]>> \o RenderedFrom(text, i + 1)

Rendered(text) == RenderedFrom(text, 1)

NoPlaceholder(text) == \A i \in 1..Len(text) : text[i] \notin {"{", "}"}

\* When every group of both texts has one of the four kinds and a
\* timestamp, the conversion succeeds and short() and body() are the texts
\* with each group replaced by its rendering, in order.
KnownGroupsRendered ==
    (fsRaw # None /\ AllGroupsRender(fsRaw[1].body) /\ AllGroupsRender(fsRaw[1].short)) =>
        /\ fsStatus.tag = "Ok"
        /\ fsShort # None =>
             fsShort[1] = Rendered(fsRaw[1].short) /\ NoPlaceholder(fsShort[1])
        /\ fsBody # None =>
             fsBody[1] = Rendered(fsRaw[1].body) /\ NoPlaceholder(fsBody[1])

\* A group with any other kind makes the conversion fail.
OtherKindFails ==
    (fsRaw # None /\ (SomeOtherKind(fsRaw[1].body) \/ SomeOtherKind(fsRaw[1].short))) =>
        fsStatus.tag = "Err"

\* C22: for texts whose groups all have the form {kind:value} with kind
\* date, time, datetime or dateabs in any letter case, short() and body()
\* replace the i-th group by the rendering of the i-th value and leave the
\* rest unchanged and no placeholder; a group with any other kind makes
\* the conversion fail.
C22_GroupsRenderedOrRefused == KnownGroupsRendered /\ OtherKindFails

(***************************************************************************)
(* Claims about Dimensions and Weight, checked under SpecDimensions and    *)
(* SpecWeight.                                                             *)
(***************************************************************************)

\* A comma-decimal number over a set of digits: digits, or digits, a comma
\* and digits.
IsNumber(n, digits) ==
    /\ n # <<>>
    /\ \A i \in 1..Len(n) : n[i] \in digits \cup {","}
    /\ Cardinality({i \in 1..Len(n) : n[i] = ","}) <= 1
    /\ n[1] # "," /\ n[Len(n)] # ","

IsUnit(u) == u # <<>> /\ \A i \in 1..Len(u) : u[i] \in WordChars

\* The positions after which the literal lit stands in the text.
Before(text, lit) == {i \in 0..Len(text) : LiteralEnd(text, i + 1, lit) # 0}

\* The ways to read a text as 'H x W x D unit': the last positions of H, W
\* and D.
DimensionSplits(text, digits) ==
    {p \in Before(text, Times) \X Before(text, Times) \X Before(text, Space) :
        /\ p[1] + Len(Times) < p[2] /\ p[2] + Len(Times) < p[3]
        /\ IsNumber(SubSeq(text, 1, p[1]), digits)
        /\ IsNumber(SubSeq(text, p[1] + Len(Times) + 1, p[2]), digits)
        /\ IsNumber(SubSeq(text, p[2] + Len(Times) + 1, p[3]), digits)
        /\ IsUnit(SubSeq(text, p[3] + 2, Len(text)))}

DimensionParts(text, p) ==
    [h |-> SubSeq(text, 1, p[1]),
     w |-> SubSeq(text, p[1] + Len(Times) + 1, p[2]),
     d |-> SubSeq(text, p[2] + Len(Times) + 1, p[3]),
     unit |-> SubSeq(text, p[3] + 2, Len(text))]

\* What the text 'H x W x D unit' stands for.
DimensionsOf(parts) ==
    LET factor == IF parts.unit = <<"cm">> THEN 1 ELSE PerMeter
    IN  IF parts.unit \in {<<"cm">>, <<"m">>}
        THEN [tag |-> "Ok", error |-> "",
              height |-> Quantity(parse_float(parts.h).value, factor),
              width |-> Quantity(parse_float(parts.w).value, factor),
              depth |-> Quantity(parse_float(parts.d).value, factor)]
        ELSE ParseErr("Unsupported unit")

\* C23 as stated: a text 'H x W x D unit' with comma-decimal numbers gives
\* height, width and depth in that order in the named unit for cm and m,
\* "Unsupported unit" for any other unit, and every other text fails as not
\* matched.
C23_DimensionsAsStated ==
    dmInput # None =>
        LET text == dmInput[1]
            splits == DimensionSplits(text, AsciiDigits)
        IN  IF splits # {}
            THEN \A p \in splits : dmResult = DimensionsOf(DimensionParts(text, p))
            ELSE dmResult = ParseErr("Invalid formatted dimensions, not matched")

\* C23, amended: as stated when the digits are ASCII digits; a text of the
\* same shape with a decimal digit outside ASCII in one of its numbers
\* fails with "Invalid formatted dimensions", whatever its unit.
C23_DimensionsParsed ==
    dmInput # None =>
        LET text == dmInput[1]
            splits == DimensionSplits(text, AsciiDigits)
        IN  IF splits # {}
            THEN \A p \in splits : dmResult = DimensionsOf(DimensionParts(text, p))
            ELSE IF DimensionSplits(text, RegexDigits) # {}
                 THEN dmResult = ParseErr("Invalid formatted dimensions")
            ELSE dmResult = ParseErr("Invalid formatted dimensions, not matched")

C23_Witness ==
    /\ dmInput = Some(<<"2", ",", "5", " ", "x", " ", "5", " ", "x", " ",
                        "2", "0", ",", "5", " ", "m">>)
    /\ dmResult.tag = "Ok"
    /\ dmResult.height = [mantissa |-> 250, scale |-> 0]
    /\ dmResult.width = [mantissa |-> 500, scale |-> 0]
    /\ dmResult.depth = [mantissa |-> 2050, scale |-> 0]

\* The ways to read a text as 'N unit': the last position of N.
WeightSplits(text, digits) ==
    {k \in Before(text, Space) :
        /\ IsNumber(SubSeq(text, 1, k), digits)
        /\ IsUnit(SubSeq(text, k + 2, Len(text)))}

\* What the text 'N unit' stands for.
WeightOf(text, k) ==
    LET unit == SubSeq(text, k + 2, Len(text))
        factor == IF unit = <<"gram">> THEN 1 ELSE PerKilogram
    IN  IF unit \in {<<"gram">>, <<"kg">>}
        THEN [tag |-> "Ok", error |-> "",
              mass |-> Quantity(parse_float(SubSeq(text, 1, k)).value, factor)]
        ELSE ParseErr("Unsupported unit")

\* C24 as stated: a text 'N unit' with a comma-decimal number gives that
\* amount in grams for "gram" and in kilograms for "kg", "Unsupported unit"
\* for any other unit, and every other text fails with "Malformed weight".
C24_WeightAsStated ==
    wtInput # None =>
        LET text == wtInput[1]
            splits == WeightSplits(text, AsciiDigits)
        IN  IF splits # {}
            THEN \A k \in splits : wtResult = WeightOf(text, k)
            ELSE wtResult = ParseErr("Malformed weight")

\* C24, amended: as stated when the digits are ASCII digits; a text of the
\* same shape with a decimal digit outside ASCII in its number fails with
\* "Invalid formatted dimensions", whatever its unit.
C24_WeightParsed ==
    wtInput # None =>
        LET text == wtInput[1]
            splits == WeightSplits(text, AsciiDigits)
        IN  IF splits # {}
            THEN \A k \in splits : wtResult = WeightOf(text, k)
            ELSE IF WeightSplits(text, RegexDigits) # {}
                 THEN wtResult = ParseErr("Invalid formatted dimensions")
            ELSE wtResult = ParseErr("Malformed weight")

C24_Witness ==
    /\ wtInput = Some(<<"2", ",", "5", " ", "kg">>)
    /\ wtResult.tag = "Ok"
    /\ wtResult.mass = [mantissa |-> 2500, scale |-> 0]

(***************************************************************************)
(* Claims about the cache slot, checked under SpecPackages and SpecMoves.  *)
(***************************************************************************)

\* C25: with one caller, after an authenticate() that failed the slot is
\* empty, also when the call took a token out of it.
C25_FailedCallLeavesSlotEmpty ==
    pc[1] \in {"failed", "panicked"} => token = None

C25_Witness ==
    /\ pc[1] = "failed"
    /\ held[1] # None
    /\ token = None

Running(c) == pc[c] \in {"refresh", "new_token", "store"}

\* C26: what one replace() put into the slot is taken out by at most one
\* call, two running calls never hold the same Token object, and the
\* refresh credential of one object goes into at most one refresh POST.
C26_CachedTokenTakenOnce ==
    /\ \A p \in DOMAIN mvTakes : mvTakes[p] <= 1
    /\ \A k \in DOMAIN mvRefreshes : mvRefreshes[k] <= 1
    /\ \A c, d \in Calls :
         (c # d /\ Running(c) /\ Running(d) /\ mvHeld[c] # 0) => mvHeld[c] # mvHeld[d]

\* One call refreshes the stale token it took while the other, started
\* later, has found the slot empty.
C26_Witness ==
    /\ pc[1] = "refresh" /\ mvHeld[1] = 1 /\ mvRefreshes[1] = 1
    /\ pc[NumCalls] = "new_token" /\ mvHeld[NumCalls] = 0

(***************************************************************************)
(* Claims about the end of authenticate(), checked under SpecLive.         *)
(***************************************************************************)

\* The POSTs of one call: a refresh at most, then a full login at most.
OneAttemptEach ==
    \A c \in Calls :
        sent[c] \in {<<>>, <<"refresh">>, <<"login">>, <<"refresh", "login">>}

\* Every call ends, if not by returning then by unwinding from a panic.
EveryCallEnds ==
    /\ []OneAttemptEach
    /\ \A c \in Calls : Running(c) ~> (pc[c] \in {"done", "failed", "panicked"})

\* C27: when every request completes, every authenticate() call returns,
\* with Ok or with an error, having sent at most one refresh POST followed
\* by at most one full-login POST.
C27_EveryCallReturns ==
    /\ []OneAttemptEach
    /\ \A c \in Calls : Running(c) ~> (pc[c] \in {"done", "failed"})

(***************************************************************************)
(* Claims about new_token, checked under SpecLogin.                        *)
(***************************************************************************)

\* C28: the full login returns the Authentication error exactly when the
\* status of the response is in 400..499; for every other status it decodes
\* the body as a token, and returns a JSON error when the body is none.
C28_AuthenticationIffClientError ==
    (lgResponse # None /\ lgResponse[1].sent) =>
        LET status == lgResponse[1].status
            body == lgResponse[1].body
        IN  /\ ntResult[1] = "Authentication" <=> status \in 400..499
            /\ (status \notin 400..499 /\ ~IsRawToken(body)) => ntResult[1] = "JSONError"
            /\ (status \notin 400..499 /\ IsRawToken(body)) =>
                   ntResult[1] \in {"Ok", "Panic"}

\* A 5xx answer with a body that is no token: a JSON error.
C28_Witness ==
    /\ lgResponse # None
    /\ lgResponse[1].sent /\ lgResponse[1].status = 500
    /\ ~IsRawToken(lgResponse[1].body)
    /\ ntResult[1] = "JSONError"
    /\ pc[1] = "failed"

(***************************************************************************)
(* A further claim about do_authorization, checked under SpecAuth.         *)
(***************************************************************************)

\* The redirect call g saw carries an `error` pair and a `code` pair.
SawErrorAndCode(g) ==
    SawErrorParam(g) /\ gt[g].redirect[1].pairs["code"] # AbsentText

\* C29: when the query string of the authorize redirect carries both an
\* `error` and a `code` parameter, the call fails with the error, holds no
\* authorization code and sends no token POST.
C29_ErrorBeforeCode ==
    SawErrorAndCode(1) =>
        /\ gt[1].pc = "failed"
        /\ gt[1].result.tag \notin {"none", "Ok"}
        /\ gt[1].result.error = gt[1].redirect[1].pairs["error"]
        /\ gt[1].code = None
        /\ gt[1].tokenReq = None
        /\ gt[1].sent = <<"GET authorize">>

C29_Witness ==
    /\ SawErrorAndCode(1)
    /\ gt[1].pc = "failed"
    /\ gt[1].code = None

====
